---- MODULE Spec2Model ----
(***************************************************************************)
(* A model of rocky.config: config sources (key normalisation, include     *)
(* filter, mapping, fetch) and the caching resolver Config; and of         *)
(* rocky.process: stoppable and pid_file.                                  *)
(*                                                                         *)
(* Representation.                                                         *)
(*   string   a sequence of one-character strings, so that split('__') is  *)
(*            computed and not assumed                                     *)
(*   path     a tuple of strings (Python tuple of str)                     *)
(*   key      [t |-> "str" | "tuple" | "list", v |-> <<...>>]; for a str   *)
(*            key v is the one-element sequence holding the string, for a  *)
(*            tuple or list key v is the sequence of its segments          *)
(*   value    a TLA+ string: None, a scalar, or the name of a heap object  *)
(*            (Python values are references; a nested dict is returned by  *)
(*            reference, never copied)                                     *)
(*   result   [exc |-> "" or the exception's name, ...]                    *)
(***************************************************************************)
EXTENDS Integers, Sequences, FiniteSets, TLC

VARIABLES
    heap,       \* live payloads the caller still mutates: object -> (segment -> value)
    _sources,   \* Config._sources: the configured source order
    _cache,     \* Config._cache: OrderedDict as a sequence of entries
    ret,        \* the last Config call: its arguments and what it returned
    first,      \* history: path -> the first non-null (value, source) returned
    nmut,       \* number of payload mutations so far
    ssrc,       \* SpecSrc: the source object under test
    sres,       \* SpecSrc: the last source.get call and its outcome
    files,      \* the file system: file name -> state of the file
    made,       \* SpecFile: the last constructor call of a file-backed source
    _log_level, \* Config._log_level
    log,        \* the records handed to logger.log, in order
    _stop,      \* stoppable._stop
    _count,     \* stoppable._count
    sig,        \* the stoppable's process: signals handled, exit status, last call
    fs,         \* the pid file's path: "absent", "unparsable" or the pid written in it
    procs,      \* the process table: pid -> is it running, and its age
    pf,         \* the pid_file instance of each process using one, and where it stands
    thr,        \* SpecRace: the callers inside Config.get_with_source
    handlers,   \* the process's signal handlers: signal -> handler
    cms,        \* the handle_signals instances (stoppable and pstack are such)
    active      \* the with-blocks open, outermost first, and the handlers before each

hvars == <<handlers, cms, active>>

pvars == <<_stop, _count, sig, fs, procs, pf, thr, hvars>>

vars == <<heap, _sources, _cache, ret, first, nmut, ssrc, sres, files, made, _log_level, log, pvars>>

-----------------------------------------------------------------------------
(* Bounds *)

MaxStrLen == 4
MaxPathLen == 2
MaxMutations == 1
MaxLog == 3
MaxCount == 4
MaxAge == 2
MaxRuns == 2
RecursionLimit == 4
MaxCalls == 2
MaxSignums == 2
MaxDepth == 3

Chars == {"a", "b", "_"}

Strings == UNION {[1..n -> Chars] : n \in 0..MaxStrLen}

None == "None"
NoExc == ""

-----------------------------------------------------------------------------
(* Named strings used in payloads, filters and mappings *)

sA == <<"a">>
sB == <<"b">>
sA__B == <<"a", "_", "_", "b">>
sA_B == <<"a", "_", "b">>
sB_B == <<"b", "_", "b">>
sB__A == <<"b", "_", "_", "a">>
sGet == <<"g", "e", "t">>
sSources == <<"s", "o", "u", "r", "c", "e", "s">>
s_cache == <<"_", "c", "a", "c", "h", "e">>

Segs == {sA, sB, sA__B, sA_B}

RECURSIVE PathsOfLen(_)
PathsOfLen(n) ==
    IF n = 0 THEN {<<>>}
    ELSE {Append(p, s) : p \in PathsOfLen(n - 1), s \in Segs}

Paths == UNION {PathsOfLen(n) : n \in 0..MaxPathLen}

StrKey(s) == [t |-> "str", v |-> <<s>>]
TupleKey(p) == [t |-> "tuple", v |-> p]
ListKey(p) == [t |-> "list", v |-> p]

-----------------------------------------------------------------------------
(* Utils and internal helpers of config.py *)

\* The least index at which "__" starts in s, or 0.
FindSep(s) ==
    LET hits == {i \in 1..(Len(s) - 1) : s[i] = "_" /\ s[i + 1] = "_"}
    IN IF hits = {} THEN 0 ELSE CHOOSE i \in hits : \A j \in hits : i <= j

\* str.split('__'): left-to-right, non-overlapping occurrences.
RECURSIVE split(_)
split(s) ==
    LET i == FindSep(s)
    IN IF i = 0 THEN <<s>>
       ELSE <<SubSeq(s, 1, i - 1)>> \o split(SubSeq(s, i + 2, Len(s)))

as_path(key) ==
    IF key.t = "str" THEN <<key.v[1]>> ELSE key.v

\* Mutant: a key given as a sequence is split like a string, segment by segment.
RECURSIVE _key_to_path_resplit(_)
_key_to_path_resplit(key) ==
    IF key.t = "str" THEN split(key.v[1])
    ELSE IF key.v = <<>> THEN <<>>
    ELSE split(Head(key.v)) \o _key_to_path_resplit([key EXCEPT !.v = Tail(key.v)])

\* Mutant: the path is never turned into its flat name.
as_key_identity(path) == TupleKey(path)

as_key(path) ==
    IF Len(path) = 1 THEN StrKey(path[1]) ELSE TupleKey(path)

_key_to_path(key) ==
    IF key.t = "str" THEN split(key.v[1]) ELSE as_path(key)

-----------------------------------------------------------------------------
(* Mappings: None, a dictionary (key -> key) or a callable *)

NoMapping == [t |-> "none", m |-> <<>>, f |-> ""]
DictMapping(m) == [t |-> "dict", m |-> m, f |-> ""]
FnMapping(f) == [t |-> "fn", m |-> <<>>, f |-> f]

\* dict.get(key): None when the key is absent.
MappingGet(m, key) == IF key \in DOMAIN m THEN m[key] ELSE [t |-> "none", v |-> <<>>]

FnSuffix == <<"_", "b">>
FnSegment == sB

\* The callables of the tests: lambda n: n + "_DIR" (str + str; a tuple
\* argument makes Python raise TypeError) and lambda n: as_path(n) + ("var",).
ApplyFn(f, key) ==
    IF f = "suffix"
    THEN IF key.t = "str"
         THEN [exc |-> NoExc, key |-> StrKey(key.v[1] \o FnSuffix)]
         ELSE [exc |-> "TypeError", key |-> key]
    ELSE [exc |-> NoExc, key |-> TupleKey(as_path(key) \o <<FnSegment>>)]

\* Mutant: the mapped key is canonicalised like a requested key, so a mapped
\* string is split on '__'.
_map_path_resplit(mapping, path) ==
    IF mapping.t = "dict"
    THEN LET byPath == MappingGet(mapping.m, TupleKey(path))
             byKey == MappingGet(mapping.m, as_key(path))
         IN IF byPath.t # "none" THEN [exc |-> NoExc, path |-> _key_to_path(byPath)]
            ELSE IF byKey.t # "none" THEN [exc |-> NoExc, path |-> _key_to_path(byKey)]
            ELSE [exc |-> NoExc, path |-> path]
    ELSE LET r == ApplyFn(mapping.f, as_key(path))
         IN IF r.exc # NoExc THEN [exc |-> r.exc, path |-> path]
            ELSE [exc |-> NoExc, path |-> _key_to_path(r.key)]

_map_path(mapping, path) ==
    IF mapping.t = "dict"
    THEN LET byPath == MappingGet(mapping.m, TupleKey(path))
             byKey == MappingGet(mapping.m, as_key(path))
         IN IF byPath.t # "none" THEN [exc |-> NoExc, path |-> as_path(byPath)]
            ELSE IF byKey.t # "none" THEN [exc |-> NoExc, path |-> as_path(byKey)]
            ELSE [exc |-> NoExc, path |-> path]
    ELSE LET r == ApplyFn(mapping.f, as_key(path))
         IN IF r.exc # NoExc THEN [exc |-> r.exc, path |-> path]
            ELSE [exc |-> NoExc, path |-> as_path(r.key)]

\* Python truthiness of the mapping argument: None and {} are false.
MappingIsTrue(mapping) ==
    \/ mapping.t = "fn"
    \/ mapping.t = "dict" /\ DOMAIN mapping.m # {}

\* none = TRUE stands for the None result (filtered out).
\* Mutant: the include filter is not applied.
_filter_map_unfiltered(include, mapping, path) ==
    IF MappingIsTrue(mapping)
    THEN [exc |-> _map_path(mapping, path).exc, none |-> FALSE,
          path |-> _map_path(mapping, path).path]
    ELSE [exc |-> NoExc, none |-> FALSE, path |-> path]

\* Mutant: the mapping is applied first and the filter tests the mapped path.
_filter_map_mapped_first(include, mapping, path) ==
    LET r == IF MappingIsTrue(mapping) THEN _map_path(mapping, path)
             ELSE [exc |-> NoExc, path |-> path]
    IN IF r.exc # NoExc THEN [exc |-> r.exc, none |-> FALSE, path |-> path]
       ELSE IF include # {} /\ ~(TupleKey(r.path) \in include \/ as_key(r.path) \in include)
       THEN [exc |-> NoExc, none |-> TRUE, path |-> path]
       ELSE [exc |-> NoExc, none |-> FALSE, path |-> r.path]

Mapped(r) == [exc |-> r.exc, none |-> FALSE, path |-> r.path]

_filter_map(include, mapping, path) ==
    IF include # {} /\ ~(TupleKey(path) \in include \/ as_key(path) \in include)
    THEN [exc |-> NoExc, none |-> TRUE, path |-> path]
    ELSE IF MappingIsTrue(mapping)
         THEN Mapped(_map_path(mapping, path))
         ELSE [exc |-> NoExc, none |-> FALSE, path |-> path]

-----------------------------------------------------------------------------
(* The include filters and mappings sources are constructed with *)

IncludeNames == {"none", "str", "tuple", "path", "sep", "list", "mixed"}
TestIncludes == IncludeNames \ {"list"}

IncludeDef(name) ==
    CASE name = "str" -> {StrKey(sA)}
      [] name = "tuple" -> {TupleKey(<<sA>>)}
      [] name = "path" -> {TupleKey(<<sA, sB>>)}
      [] name = "sep" -> {StrKey(sA__B)}
      [] name = "list" -> {ListKey(<<sA, sB>>)}
      [] name = "mixed" -> {StrKey(sB), TupleKey(<<sA>>), TupleKey(<<sA, sB>>), StrKey(sA__B)}
      [] OTHER -> {}

MappingNames ==
    {"none", "empty", "str", "tuple", "path", "both", "list", "suffix", "append",
     "sepkey", "flat"}
TestMappings == MappingNames \ {"empty", "list"}

Map1(k1, v1) == [k \in {k1} |-> v1]
Map2(k1, v1, k2, v2) == [k \in {k1, k2} |-> IF k = k1 THEN v1 ELSE v2]

MappingDef(name) ==
    CASE name = "empty" -> DictMapping(<<>>)
      [] name = "str" -> DictMapping(Map1(StrKey(sA), StrKey(sB)))
      [] name = "tuple" -> DictMapping(Map1(TupleKey(<<sA>>), StrKey(sB)))
      [] name = "path" -> DictMapping(Map1(TupleKey(<<sB, sA>>), TupleKey(<<sA, sB>>)))
      [] name = "both" -> DictMapping(Map2(TupleKey(<<sB>>), StrKey(sA_B),
                                           StrKey(sB), StrKey(sA__B)))
      [] name = "list" -> DictMapping(Map1(StrKey(sB), ListKey(<<sA, sB>>)))
      [] name = "sepkey" -> DictMapping(Map1(StrKey(sB__A), TupleKey(<<sA, sB>>)))
      [] name = "flat" -> DictMapping(Map1(TupleKey(<<sA, sB>>), StrKey(sA__B)))
      [] name = "suffix" -> FnMapping("suffix")
      [] name = "append" -> FnMapping("append")
      [] OTHER -> NoMapping

-----------------------------------------------------------------------------
(* Payload objects *)

Objs == {"d1", "d1c", "d2", "d2c", "o1", "o1c", "environ", "ini", "ini_a"}

ObjKind(o) ==
    CASE o \in {"d1", "d1c", "d2", "d2c"} -> "dict"
      [] o \in {"o1", "o1c"} -> "object"
      [] o = "environ" -> "environ"
      [] OTHER -> "ini"

Fn1(k1, v1) == [k \in {k1} |-> v1]
Fn2(k1, v1, k2, v2) == [k \in {k1, k2} |-> IF k = k1 THEN v1 ELSE v2]
Fn3(k1, v1, k2, v2, k3, v3) ==
    [k \in {k1, k2, k3} |-> IF k = k1 THEN v1 ELSE IF k = k2 THEN v2 ELSE v3]

Fn4(k1, v1, k2, v2, k3, v3, k4, v4) ==
    [k \in {k1, k2, k3, k4} |->
        IF k = k1 THEN v1 ELSE IF k = k2 THEN v2 ELSE IF k = k3 THEN v3 ELSE v4]

InitHeap ==
    [o \in Objs |->
        CASE o = "d1" -> Fn3(sA, "d1c", sB, "27", sA_B, "31")
          [] o = "d1c" -> Fn1(sB, "27")
          [] o = "d2" -> Fn4(sA, "d2c", sB, "28", sA__B, "19", sGet, "7")
          [] o = "d2c" -> Fn2(sB, "28", sA, "19")
          [] o = "o1" -> Fn2(sA, "o1c", sB, "44")
          [] o = "o1c" -> Fn1(sB, "23")
          [] o = "environ" -> Fn2(sA, "e23", sA__B, "e44")
          [] o = "ini" -> Fn1(sA, "ini_a")
          [] OTHER -> Fn1(sB, "i27")]

-----------------------------------------------------------------------------
(* Config sources *)

\* A source object. include and mapping are held by name (see IncludeDef and
\* MappingDef) so that a reference to a source is a small value.
Source(cls, src, include, mapping, value) ==
    [cls |-> cls, src |-> src, include |-> include, mapping |-> mapping, value |-> value]

\* The attributes/items of object o: the live payload if the caller mutates
\* it, else the payload as constructed.
Items(h, o) == IF o \in DOMAIN h THEN h[o] ELSE InitHeap[o]

\* Dict._get_segment: obj.get(segment, None) if obj is a Mapping, else None.
Dict_get_segment(h, obj, segment) ==
    IF obj \in Objs /\ ObjKind(obj) = "dict" /\ segment \in DOMAIN Items(h, obj)
    THEN Items(h, obj)[segment] ELSE None

\* Props._get_segment: getattr(obj, segment, None).
Props_get_segment(h, obj, segment) ==
    IF obj \in Objs /\ ObjKind(obj) = "object" /\ segment \in DOMAIN Items(h, obj)
    THEN Items(h, obj)[segment] ELSE None

_get_segment(cls, h, obj, segment) ==
    IF cls = "Dict" THEN Dict_get_segment(h, obj, segment)
    ELSE Props_get_segment(h, obj, segment)

\* Base._get_path: walk the segments, stop at the first None.
RECURSIVE Base_get_path(_, _, _, _)
Base_get_path_step(cls, h, obj, rest) ==
    IF obj = None THEN None ELSE Base_get_path(cls, h, obj, rest)

Base_get_path(cls, h, obj, path) ==
    IF path = <<>> THEN obj
    ELSE Base_get_path_step(cls, h, _get_segment(cls, h, obj, Head(path)), Tail(path))

\* Mutant: a path of two segments is looked up under its '__'-joined name.
Env_get_path_joined(h, path) ==
    IF Len(path) \notin {1, 2} THEN None
    ELSE IF (IF Len(path) = 1 THEN path[1] ELSE path[1] \o <<"_", "_">> \o path[2])
                \in DOMAIN Items(h, "environ")
         THEN Items(h, "environ")[IF Len(path) = 1 THEN path[1]
                                  ELSE path[1] \o <<"_", "_">> \o path[2]]
         ELSE None

Env_get_path(h, path) ==
    IF Len(path) # 1 THEN None
    ELSE IF path[1] \in DOMAIN Items(h, "environ")
         THEN Items(h, "environ")[path[1]] ELSE None

PyFile_get_path(h, src, path) ==
    IF src = None THEN None ELSE Base_get_path("Props", h, src, path)

\* ConfigParser.get(section, option, fallback=None)
ConfigFile_get_path(h, src, path) ==
    IF src = None \/ Len(path) # 2 THEN None
    ELSE IF path[1] \in DOMAIN Items(h, src)
         THEN LET sec == Items(h, src)[path[1]]
              IN IF path[2] \in DOMAIN Items(h, sec) THEN Items(h, sec)[path[2]] ELSE None
         ELSE None

_get_path(s, h, path) ==
    CASE s.cls = "Env" -> Env_get_path(h, path)
      [] s.cls = "PyFile" -> PyFile_get_path(h, s.src, path)
      [] s.cls = "ConfigFile" -> ConfigFile_get_path(h, s.src, path)
      [] OTHER -> Base_get_path(s.cls, h, s.src, path)

\* Base.get(key): canonicalise, filter and map, then fetch.
Base_get_mapped(s, h, fm) ==
    IF fm.exc # NoExc THEN [exc |-> fm.exc, val |-> None]
    ELSE IF fm.none THEN [exc |-> NoExc, val |-> None]
    ELSE [exc |-> NoExc, val |-> _get_path(s, h, fm.path)]

Base_get(s, h, key) ==
    Base_get_mapped(s, h,
        _filter_map(IncludeDef(s.include), MappingDef(s.mapping), _key_to_path(key)))

\* source.get(key) of any source class; FileContent and Default ignore the key.
SourceGet(s, h, key) ==
    IF s.cls \in {"FileContent", "Default"} THEN [exc |-> NoExc, val |-> s.value]
    ELSE Base_get(s, h, key)

NoneSource == Source("None", None, "none", "none", None)

-----------------------------------------------------------------------------
(* File-backed sources: what the constructors do with the file *)

\* A file is missing, present but not readable (permission denied), present
\* with bytes that are not valid UTF-8, or present and well-formed.
FileStates == {"missing", "unreadable", "undecodable", "present"}
FileNames == {"conf"}

\* open(filename): the OSError it raises, if any.
OpenError(state) ==
    CASE state = "missing" -> "FileNotFoundError"
      [] state = "unreadable" -> "PermissionError"
      [] OTHER -> NoExc

NoMade ==
    [cls |-> "None", found |-> "missing", tolerate |-> FALSE, exc |-> NoExc,
     source |-> NoneSource]

Made(cls, found, tolerate, exc, source) ==
    [cls |-> cls, found |-> found, tolerate |-> tolerate, exc |-> exc,
     source |-> IF exc = NoExc THEN source ELSE NoneSource]

\* PyFile.__init__: load the file as a module; only FileNotFoundError is
\* caught, and only when fail_on_not_found is False. A file that is not
\* valid UTF-8 does not compile.
PyFile_new(state, fail_on_not_found) ==
    IF state = "missing"
    THEN Made("PyFile", state, ~fail_on_not_found,
              IF fail_on_not_found THEN "FileNotFoundError" ELSE NoExc,
              Source("PyFile", None, "none", "none", None))
    ELSE IF state = "unreadable"
    THEN Made("PyFile", state, ~fail_on_not_found, "PermissionError", NoneSource)
    ELSE IF state = "undecodable"
    THEN Made("PyFile", state, ~fail_on_not_found, "SyntaxError", NoneSource)
    ELSE Made("PyFile", state, ~fail_on_not_found, NoExc,
              Source("PyFile", "o1", "none", "none", None))

\* ConfigFile.__init__: open the file and parse it.
ConfigFile_new(state, fail_on_not_found) ==
    IF state = "missing"
    THEN Made("ConfigFile", state, ~fail_on_not_found,
              IF fail_on_not_found THEN "FileNotFoundError" ELSE NoExc,
              Source("ConfigFile", None, "none", "none", None))
    ELSE IF state = "unreadable"
    THEN Made("ConfigFile", state, ~fail_on_not_found, "PermissionError", NoneSource)
    ELSE IF state = "undecodable"
    THEN Made("ConfigFile", state, ~fail_on_not_found, "UnicodeDecodeError", NoneSource)
    ELSE Made("ConfigFile", state, ~fail_on_not_found, NoExc,
              Source("ConfigFile", "ini", "none", "none", None))

\* What FileContent keeps of a well-formed file holding b"  content\n".
FileValue(strip, encoding) ==
    IF encoding = None THEN "b'  content\\n'"
    ELSE IF strip THEN "content" ELSE "  content\n"

\* FileContent.__init__: open(filename, 'rb'), read, decode and strip inside
\* try ... except OSError; the decode is value.decode('utf-8') whenever an
\* encoding is given.
FileContent_new(state, fail_on_read_error, strip, encoding) ==
    IF OpenError(state) # NoExc
    THEN Made("FileContent", state, ~fail_on_read_error,
              IF fail_on_read_error THEN OpenError(state) ELSE NoExc,
              Source("FileContent", None, "none", "none", None))
    ELSE IF state = "undecodable" /\ encoding # None
    THEN Made("FileContent", state, ~fail_on_read_error, "UnicodeDecodeError", NoneSource)
    ELSE Made("FileContent", state, ~fail_on_read_error, NoExc,
              Source("FileContent", None, "none", "none", FileValue(strip, encoding)))
Default(value) == Source("Default", None, "none", "none", value)

-----------------------------------------------------------------------------
(* Config *)

Entry(path, value, source, log_value) ==
    [path |-> path, value |-> value, source |-> source, log_value |-> log_value]

CachedAt(cache, path) == {i \in 1..Len(cache) : cache[i].path = path}

\* self._cache.get(path, (None, None))
CacheGet(cache, path) ==
    IF CachedAt(cache, path) = {} THEN Entry(path, None, NoneSource, TRUE)
    ELSE cache[CHOOSE i \in CachedAt(cache, path) : TRUE]

\* self._cache[path] = value, source, log_value on an OrderedDict: a new key
\* is appended, an existing key keeps its place and gets the new value.
CacheSet(cache, path, entry) ==
    IF CachedAt(cache, path) = {} THEN Append(cache, entry)
    ELSE [i \in 1..Len(cache) |-> IF cache[i].path = path THEN entry ELSE cache[i]]

\* Log levels: logging.NOTSET, two levels that log, and None for "not given".
NOTSET == "NOTSET"
LogLevels == {NOTSET, "DEBUG", "INFO"}

NotLogged == "<not logging value>"

\* getattr(source, 'name', ''): the default name of each source class; the
\* file-backed sources are named after the file.
SourceName(s) ==
    CASE s.cls = "Dict" -> "dict"
      [] s.cls = "Props" -> "object"
      [] s.cls = "Env" -> "env"
      [] s.cls = "Default" -> "default"
      [] OTHER -> "conf"

\* The record handed to logger.log: the level and the arguments of the
\* format "config %s = %r (%s %s)".
LogLine(level, path, value, source, log_value) ==
    [level |-> level, key |-> as_key(path),
     value |-> IF log_value THEN value ELSE NotLogged,
     cls |-> source.cls, name |-> SourceName(source)]

\* Mutant: the level given to the call is ignored, the constructor's decides.
_log_own_level(level, path, value, source, log_level, log_value) ==
    IF level # NOTSET THEN <<LogLine(level, path, value, source, log_value)>> ELSE <<>>

\* Mutant: the value is logged whatever log_value says.
_log_unredacted(level, path, value, source, log_level, log_value) ==
    IF (IF log_level = None THEN level ELSE log_level) # NOTSET
    THEN <<LogLine(IF log_level = None THEN level ELSE log_level, path, value, source, TRUE)>>
    ELSE <<>>

\* Config._log: what it hands to the logger (level is self._log_level).
_log(level, path, value, source, log_level, log_value) ==
    IF (IF log_level = None THEN level ELSE log_level) # NOTSET
    THEN <<LogLine(IF log_level = None THEN level ELSE log_level, path, value, source,
                   log_value)>>
    ELSE <<>>

\* Config.log_cached: _log for every cache entry, in the order of the cache.
RECURSIVE log_cached(_, _, _)
\* Mutant: the entries are replayed with the constructor's level only.
log_cached_own_level(cache, level, log_level) ==
    IF cache = <<>> THEN <<>>
    ELSE _log(level, Head(cache).path, Head(cache).value, Head(cache).source, None,
              Head(cache).log_value)
         \o log_cached(Tail(cache), level, None)

log_cached(cache, level, log_level) ==
    IF cache = <<>> THEN <<>>
    ELSE _log(level, Head(cache).path, Head(cache).value, Head(cache).source, log_level,
              Head(cache).log_value)
         \o log_cached(Tail(cache), level, log_level)

\* Mutant: an insert is skipped once the path has an entry.
_cache_and_log_keep_winner(cache, path, value, source, log_level, log_value) ==
    IF CachedAt(cache, path) # {} THEN cache
    ELSE CacheSet(cache, path, Entry(path, value, source, log_value))

\* The first statement of _cache_and_log; the second, the call of _log, is
\* the lines field next to it.
_cache_and_log(cache, path, value, source, log_level, log_value) ==
    CacheSet(cache, path, Entry(path, value, source, log_value))

\* Mutant: the per-call sources are tried first and the configured ones after.
EffectiveSources_fallthrough(sources, configured, default) ==
    sources \o configured \o (IF default = None THEN <<>> ELSE <<Default(default)>>)

\* itertools.chain(sources or self._sources, [] if default is None else [Default(default)])
EffectiveSources(sources, configured, default) ==
    (IF sources # <<>> THEN sources ELSE configured)
        \o (IF default = None THEN <<>> ELSE <<Default(default)>>)

\* The for loop of get_with_source: the first source whose get is not None.
RECURSIVE Resolve(_, _, _)
\* Mutant: the loop does not return at the first answer, the last one wins.
Resolve_step_last(srcs, h, path, r) ==
    IF r.exc # NoExc THEN [exc |-> r.exc, value |-> None, source |-> NoneSource]
    ELSE IF r.val # None /\ Resolve(Tail(srcs), h, path).value = None
    THEN [exc |-> NoExc, value |-> r.val, source |-> Head(srcs)]
    ELSE Resolve(Tail(srcs), h, path)

Resolve_step(srcs, h, path, r) ==
    IF r.exc # NoExc THEN [exc |-> r.exc, value |-> None, source |-> NoneSource]
    ELSE IF r.val # None THEN [exc |-> NoExc, value |-> r.val, source |-> Head(srcs)]
    ELSE Resolve(Tail(srcs), h, path)

Resolve(srcs, h, path) ==
    IF srcs = <<>> THEN [exc |-> NoExc, value |-> None, source |-> NoneSource]
    ELSE Resolve_step(srcs, h, path, SourceGet(Head(srcs), h, TupleKey(path)))

\* Mutant: a value that came from the default is returned but not cached.
get_with_source_miss_default_uncached(cache, level, path, log_level, log_value, r) ==
    IF r.exc = NoExc /\ r.value # None
    THEN [exc |-> NoExc, hit |-> FALSE, value |-> r.value, source |-> r.source,
          cache |-> IF r.source.cls = "Default" THEN cache
                    ELSE _cache_and_log(cache, path, r.value, r.source, log_level, log_value),
          lines |-> _log(level, path, r.value, r.source, log_level, log_value)]
    ELSE [exc |-> r.exc, hit |-> FALSE, value |-> None, source |-> NoneSource,
          cache |-> cache, lines |-> <<>>]

\* Mutant: the outcome of the loop is cached even when nothing resolved.
get_with_source_miss_cache_none(cache, level, path, log_level, log_value, r) ==
    IF r.exc = NoExc
    THEN [exc |-> NoExc, hit |-> FALSE, value |-> r.value, source |-> r.source,
          cache |-> _cache_and_log(cache, path, r.value, r.source, log_level, log_value),
          lines |-> _log(level, path, r.value, r.source, log_level, log_value)]
    ELSE [exc |-> r.exc, hit |-> FALSE, value |-> None, source |-> NoneSource,
          cache |-> cache, lines |-> <<>>]

\* The part of get_with_source after the cache missed.
get_with_source_miss(cache, level, path, log_level, log_value, r) ==
    IF r.exc = NoExc /\ r.value # None
    THEN [exc |-> NoExc, hit |-> FALSE, value |-> r.value, source |-> r.source,
          cache |-> _cache_and_log(cache, path, r.value, r.source, log_level, log_value),
          lines |-> _log(level, path, r.value, r.source, log_level, log_value)]
    ELSE [exc |-> r.exc, hit |-> FALSE, value |-> None, source |-> NoneSource,
          cache |-> cache, lines |-> <<>>]

\* Mutant: the cache is not consulted.
get_with_source_path_nocache(cache, level, configured, h, path, sources, default, log_level, log_value, hit) ==
    get_with_source_miss(cache, level, path, log_level, log_value,
        Resolve(EffectiveSources(sources, configured, default), h, path))

\* Mutant: per-call sources bypass the cache.
get_with_source_path_bypass(cache, level, configured, h, path, sources, default, log_level, log_value, hit) ==
    IF hit.value # None /\ sources = <<>>
    THEN [exc |-> NoExc, hit |-> TRUE, value |-> hit.value, source |-> hit.source,
          cache |-> cache, lines |-> <<>>]
    ELSE get_with_source_miss(cache, level, path, log_level, log_value,
            Resolve(EffectiveSources(sources, configured, default), h, path))

get_with_source_path(cache, level, configured, h, path, sources, default, log_level, log_value, hit) ==
    IF hit.value # None
    THEN [exc |-> NoExc, hit |-> TRUE, value |-> hit.value, source |-> hit.source,
          cache |-> cache, lines |-> <<>>]
    ELSE get_with_source_miss(cache, level, path, log_level, log_value,
            Resolve(EffectiveSources(sources, configured, default), h, path))

get_with_source(cache, level, configured, h, key, sources, default, log_level, log_value) ==
    get_with_source_path(cache, level, configured, h, _key_to_path(key), sources, default,
                         log_level, log_value, CacheGet(cache, _key_to_path(key)))

-----------------------------------------------------------------------------
(* rocky.process: handle_signals *)

SIGINT == "SIGINT"
SIGUSR1 == "SIGUSR1"
Signals == {SIGINT, SIGUSR1}

\* What signal.signal() takes and returns: SIG_DFL, SIG_IGN, a callable, or
\* (returned only) None when the handler in place was not installed from
\* Python.  self is the instance of a bound on_signal, 0 otherwise.
SIG_DFL == [f |-> "SIG_DFL", self |-> 0]
SIG_IGN == [f |-> "SIG_IGN", self |-> 0]
NoneHandler == [f |-> None, self |-> 0]
a_handler == [f |-> "handler", self |-> 0]
on_signal(i) == [f |-> "on_signal", self |-> i]

\* Python's "x or y": None and SIG_DFL (the IntEnum member 0) are false
Or(x, y) == IF x = NoneHandler \/ x = SIG_DFL THEN y ELSE x

EmptyDict == [s \in {} |-> SIG_DFL]

\* d[k] = v
DictSet(d, k, v) == [s \in DOMAIN d \cup {k} |-> IF s = k THEN v ELSE d[s]]

\* handle_signals(signums, handler) constructed as instance i
handle_signals_new(i, signums, handler) ==
    [existing_handlers |-> EmptyDict,
     signums |-> signums,
     handler |-> Or(handler, on_signal(i))]

\* stoppable() and pstack() pass their signums to handle_signals.__init__
\* and leave handler to be self.on_signal
stoppable_signums == <<SIGINT>>
pstack_signums == <<SIGUSR1>>

\* __enter__ from the k-th signum on: what signal() returned is kept under
\* the signum, the instance's handler is installed
RECURSIVE handle_signals_enter_from(_, _, _)
handle_signals_enter_from(self, table, k) ==
    IF k > Len(self.signums)
    THEN [self |-> self, handlers |-> table]
    ELSE LET signo == self.signums[k]
         IN  handle_signals_enter_from(
                 [self EXCEPT !.existing_handlers = DictSet(@, signo, table[signo])],
                 [table EXCEPT ![signo] = self.handler],
                 k + 1)

\* __exit__: every item of existing_handlers is installed, SIG_DFL for a
\* false one (a dict holds a key once, so the order does not matter)
handle_signals_exit(self, table) ==
    [s \in Signals |->
        IF s \in DOMAIN self.existing_handlers
        THEN Or(self.existing_handlers[s], SIG_DFL)
        ELSE table[s]]

\* with cms[i]: ... is entered, inside the with-blocks already open
cm_enter(i) ==
    /\ Len(active) < MaxDepth
    /\ LET r == handle_signals_enter_from(cms[i], handlers, 1)
       IN  /\ handlers' = r.handlers
           /\ cms' = [cms EXCEPT ![i] = r.self]
    /\ active' = Append(active, [cm |-> i, before |-> handlers])
    /\ UNCHANGED <<heap, _sources, _cache, ret, first, nmut, ssrc, sres, files, made,
                   _log_level, log, _stop, _count, sig, fs, procs, pf, thr>>

\* the innermost open with-block is left
cm_exit ==
    /\ active # <<>>
    /\ handlers' = handle_signals_exit(cms[active[Len(active)].cm], handlers)
    /\ active' = SubSeq(active, 1, Len(active) - 1)
    /\ UNCHANGED <<heap, _sources, _cache, ret, first, nmut, ssrc, sres, files, made,
                   _log_level, log, _stop, _count, sig, fs, procs, pf, thr, cms>>

\* No handle_signals in use
NoSignals ==
    /\ handlers = [s \in Signals |-> SIG_DFL]
    /\ cms = <<>>
    /\ active = <<>>

-----------------------------------------------------------------------------
(* rocky.process: stoppable *)

DefaultCount == 4
Counts == 0..MaxCount

True == "True"
False == "False"
Bool(b) == IF b THEN True ELSE False

\* The process a stoppable lives in: the count it was constructed with, the
\* signals its handler has handled, whether the process still runs and the
\* status it exited with, and the last call on the stoppable with its result.
NoSig ==
    [count |-> 0, handled |-> 0, alive |-> FALSE, status |-> None,
     op |-> "none", throw |-> TRUE, result |-> None, exc |-> NoExc]

stoppable_new(count) == [NoSig EXCEPT !.count = count, !.alive = TRUE]

Exited(s, op, status) ==
    [s EXCEPT !.op = op, !.alive = FALSE, !.status = status, !.result = None,
              !.exc = "SystemExit"]

Called(s, op, result) == [s EXCEPT !.op = op, !.result = result, !.exc = NoExc]

on_signal_exits_at_zero(count) == count <= 0

on_signal_exits(count) == count < 0

stoppable_on_signal ==
    /\ sig.alive
    /\ _count' = _count - 1
    /\ IF on_signal_exits(_count')
       THEN /\ sig' = Exited([sig EXCEPT !.handled = @ + 1], "on_signal", "1")
            /\ UNCHANGED _stop
       ELSE /\ sig' = Called([sig EXCEPT !.handled = @ + 1], "on_signal", None)
            /\ _stop' = TRUE
    /\ UNCHANGED <<hvars, heap, _sources, _cache, ret, first, nmut, ssrc, sres, files, made,
                   _log_level, log, fs, procs, pf, thr>>

check_stop_unnegated(stop, throw) ==
    IF ~throw THEN [exc |-> NoExc, val |-> Bool(stop)]
    ELSE IF stop THEN [exc |-> "SystemExit", val |-> None]
    ELSE [exc |-> NoExc, val |-> None]

check_stop(stop, throw) ==
    IF ~throw THEN [exc |-> NoExc, val |-> Bool(~stop)]
    ELSE IF stop THEN [exc |-> "SystemExit", val |-> None]
    ELSE [exc |-> NoExc, val |-> None]

stoppable_check_stop(throw) ==
    /\ sig.alive
    /\ LET r == check_stop(_stop, throw) IN
        sig' = IF r.exc = NoExc
               THEN Called([sig EXCEPT !.throw = throw], "check_stop", r.val)
               ELSE Exited([sig EXCEPT !.throw = throw], "check_stop", "0")
    /\ UNCHANGED <<hvars, heap, _sources, _cache, ret, first, nmut, ssrc, sres, files, made,
                   _log_level, log, _stop, _count, fs, procs, pf, thr>>

stoppable_stop ==
    /\ sig.alive
    /\ _stop' = TRUE
    /\ sig' = Called(sig, "stop", None)
    /\ UNCHANGED <<hvars, heap, _sources, _cache, ret, first, nmut, ssrc, sres, files, made,
                   _log_level, log, _count, fs, procs, pf, thr>>

-----------------------------------------------------------------------------
(* rocky.process: pid_file                                                  *)
(*                                                                          *)
(* One path holds the pid file.  __enter__ is followed system call by       *)
(* system call (open 'x', open 'r', psutil.Process), because other          *)
(* processes run between them.  Its recursion `return self.__enter__()` is  *)
(* a new frame per attempt; no frame catches what a later frame raises as   *)
(* long as on_dead raises no psutil.NoSuchProcess, which the callbacks      *)
(* below respect, so the frames are counted (depth) and not stacked.        *)

Pids == {1, 2, 3}

\* max_age=None; ages are whole seconds from 0
NoneAge == -1
MaxAges == {NoneAge, 1}

Absent == [state |-> "absent", pid |-> 0]
Unparsable == [state |-> "unparsable", pid |-> 0]
Holds(pid) == [state |-> "pid", pid |-> pid]

\* Callbacks a caller may pass: None (the default action of the event), or
\* a function that returns True, returns False, ends the other process and
\* returns True, removes the pid file and returns True, or lets a
\* psutil.NoSuchProcess of its own psutil calls escape.
ExistingCallbacks == {None, "true", "false", "kill", "NoSuchProcess"}
MaxAgeCallbacks == {None, "true", "false", "NoSuchProcess"}
DeadCallbacks == {None, "true", "false", "remove"}

\* The outcome of a method: the exception it raised or the value it
\* returned, and the file and the process table it leaves.
Outcome(exc, result, file, table) ==
    [exc |-> exc, ret |-> result, fs |-> file, procs |-> table]

Callback(cb, file, table, pid) ==
    CASE cb = "true" -> Outcome(NoExc, TRUE, file, table)
      [] cb = "false" -> Outcome(NoExc, FALSE, file, table)
      [] cb = "kill" -> Outcome(NoExc, TRUE, file, [table EXCEPT ![pid].alive = FALSE])
      [] cb = "remove" -> Outcome(NoExc, TRUE, Absent, table)
      [] OTHER -> Outcome("NoSuchProcess", FALSE, file, table)

\* os.remove(self.filename)
os_remove(file) ==
    IF file = Absent THEN [exc |-> "FileNotFoundError", fs |-> file]
    ELSE [exc |-> NoExc, fs |-> Absent]

\* An instance: the constructor's arguments and created; then where its
\* user stands (pc, the pid read, the frames of __enter__) and history:
\* the events called, the file found at the call (fs0), whether this
\* __enter__ wrote the file (wrote), what __exit__ was given and did.
NoInstance ==
    [max_age |-> NoneAge, max_age_callback |-> None, existing_callback |-> None,
     dead_callback |-> None, created |-> FALSE,
     pc |-> "idle", pid |-> 0, depth |-> 0, events |-> <<>>, exc |-> NoExc,
     fs0 |-> Absent, runs |-> 0, exc_type |-> None, removed |-> FALSE,
     wrote |-> FALSE]

pid_file_new(max_age, max_age_callback, existing_callback, dead_callback) ==
    [NoInstance EXCEPT !.max_age = max_age, !.max_age_callback = max_age_callback,
                       !.existing_callback = existing_callback,
                       !.dead_callback = dead_callback]

on_existing(self, file, table, pid) ==
    IF self.existing_callback # None
    THEN Callback(self.existing_callback, file, table, pid)
    ELSE Outcome("SystemExit", FALSE, file, table)

on_max_age(self, file, table, pid) ==
    IF self.max_age_callback # None
    THEN Callback(self.max_age_callback, file, table, pid)
    ELSE Outcome("SystemExit", FALSE, file, table)

on_dead_keeps_file(self, file, table, pid) ==
    IF self.dead_callback # None
    THEN Callback(self.dead_callback, file, table, pid)
    ELSE Outcome(NoExc, TRUE, file, table)

on_dead(self, file, table, pid) ==
    IF self.dead_callback # None
    THEN Callback(self.dead_callback, file, table, pid)
    ELSE Outcome(os_remove(file).exc, os_remove(file).exc = NoExc, os_remove(file).fs, table)

Event(name, pid, o) == [name |-> name, pid |-> pid, exc |-> o.exc, ret |-> o.ret]

ExceedsMaxAge_inclusive(max_age, age) == max_age # NoneAge /\ age >= max_age

ExceedsMaxAge(max_age, age) == max_age # NoneAge /\ age > max_age

\* lines 257-275 of __enter__: the process of the recorded pid is looked up
\* and the event called.  The try block holds the calls of on_max_age and
\* on_existing, so a psutil.NoSuchProcess leaving one of them is handled
\* like that of psutil.Process(pid): on_dead is called.
\* The result: the events called, in order, and the last one's outcome.
Probe(self, file, table, pid) ==
    IF ~table[pid].alive
    THEN [events |-> <<Event("on_dead", pid, on_dead(self, file, table, pid))>>,
          last |-> on_dead(self, file, table, pid)]
    ELSE IF ExceedsMaxAge(self.max_age, table[pid].age)
    THEN IF on_max_age(self, file, table, pid).exc = "NoSuchProcess"
         THEN [events |-> <<Event("on_max_age", pid, on_max_age(self, file, table, pid)),
                            Event("on_dead", pid, on_dead(self, file, table, pid))>>,
               last |-> on_dead(self, file, table, pid)]
         ELSE [events |-> <<Event("on_max_age", pid, on_max_age(self, file, table, pid))>>,
               last |-> on_max_age(self, file, table, pid)]
    ELSE IF on_existing(self, file, table, pid).exc = "NoSuchProcess"
         THEN [events |-> <<Event("on_existing", pid, on_existing(self, file, table, pid)),
                            Event("on_dead", pid, on_dead(self, file, table, pid))>>,
               last |-> on_dead(self, file, table, pid)]
         ELSE [events |-> <<Event("on_existing", pid, on_existing(self, file, table, pid))>>,
               last |-> on_existing(self, file, table, pid)]

\* The instance after __enter__ returned self, or after an exception left it.
Returns(self) == [self EXCEPT !.pc = "body", !.exc = NoExc]
Raises(self, exc) == [self EXCEPT !.pc = "raised", !.exc = exc]

\* Mutant: at the recursion limit __enter__ gives up and returns self.
Retry_gives_up(self) ==
    IF self.depth >= RecursionLimit THEN Returns(self)
    ELSE [self EXCEPT !.pc = "open_x", !.depth = @ + 1]

\* `return self.__enter__()`: one more frame, while the interpreter has room
Retry(self) ==
    IF self.depth >= RecursionLimit THEN Raises(self, "RecursionError")
    ELSE [self EXCEPT !.pc = "open_x", !.depth = @ + 1]

\* the with statement (or the decorated function) calls __enter__
pid_file_enter(p) ==
    /\ pf[p].pc \in {"idle", "raised", "exited"}
    /\ pf[p].runs < MaxRuns
    /\ pf' = [pf EXCEPT ![p] = [@ EXCEPT !.pc = "open_x", !.pid = 0, !.depth = 1,
                                         !.events = <<>>, !.exc = NoExc, !.fs0 = fs,
                                         !.runs = @ + 1, !.exc_type = None,
                                         !.removed = FALSE, !.wrote = FALSE]]
    /\ UNCHANGED <<hvars, heap, _sources, _cache, ret, first, nmut, ssrc, sres, files, made,
                   _log_level, log, _stop, _count, sig, fs, procs, thr>>

\* lines 238-248: open(self.filename, 'x') and the write of the pid
pid_file_open_x(p) ==
    /\ pf[p].pc = "open_x"
    /\ IF fs = Absent
       THEN /\ fs' = Holds(p)
            /\ pf' = [pf EXCEPT ![p] = Returns([@ EXCEPT !.created = TRUE, !.wrote = TRUE])]
       ELSE /\ pf' = [pf EXCEPT ![p].pc = "open_r"]
            /\ UNCHANGED fs
    /\ UNCHANGED <<hvars, heap, _sources, _cache, ret, first, nmut, ssrc, sres, files, made,
                   _log_level, log, _stop, _count, sig, procs, thr>>

\* lines 250-255: open(self.filename, 'r') and int(f.readline().strip())
pid_file_open_r(p) ==
    /\ pf[p].pc = "open_r"
    /\ pf' = [pf EXCEPT ![p] =
                CASE fs = Absent -> Raises(@, "OSError")
                  [] fs = Unparsable -> Raises(@, "ValueError")
                  [] OTHER -> [@ EXCEPT !.pc = "probe", !.pid = fs.pid]]
    /\ UNCHANGED <<hvars, heap, _sources, _cache, ret, first, nmut, ssrc, sres, files, made,
                   _log_level, log, _stop, _count, sig, fs, procs, thr>>

Probed(self, r) ==
    IF r.last.exc # NoExc THEN Raises([self EXCEPT !.events = @ \o r.events], r.last.exc)
    ELSE IF r.last.ret THEN Retry([self EXCEPT !.events = @ \o r.events])
    ELSE Returns([self EXCEPT !.events = @ \o r.events])

\* lines 257-275
pid_file_probe(p) ==
    /\ pf[p].pc = "probe"
    /\ pf' = [pf EXCEPT ![p] = Probed(@, Probe(@, fs, procs, @.pid))]
    /\ fs' = Probe(pf[p], fs, procs, pf[p].pid).last.fs
    /\ procs' = Probe(pf[p], fs, procs, pf[p].pid).last.procs
    /\ UNCHANGED <<hvars, heap, _sources, _cache, ret, first, nmut, ssrc, sres, files, made,
                   _log_level, log, _stop, _count, sig, thr>>

ExcTypes == {None, "SystemExit", "Exception"}

pid_file_exit_keeps_file(self, file) == [removed |-> FALSE, fs |-> file]

\* lines 277-287: what __exit__ does to the file; it returns False always,
\* so the body's exception goes on to the caller
pid_file_exit(self, file) ==
    IF ~self.created THEN [removed |-> FALSE, fs |-> file]
    ELSE [removed |-> os_remove(file).exc = NoExc, fs |-> os_remove(file).fs]

\* the with-body ends, normally or with an exception, and __exit__ runs
pid_file_leave(p, exc_type) ==
    /\ pf[p].pc = "body"
    /\ pf' = [pf EXCEPT ![p] = [@ EXCEPT !.pc = "exited",
                                         !.exc = IF exc_type = None THEN NoExc ELSE exc_type,
                                         !.exc_type = exc_type,
                                         !.removed = pid_file_exit(pf[p], fs).removed]]
    /\ fs' = pid_file_exit(pf[p], fs).fs
    /\ UNCHANGED <<hvars, heap, _sources, _cache, ret, first, nmut, ssrc, sres, files, made,
                   _log_level, log, _stop, _count, sig, procs, thr>>

\* another process ends
Process_ends(q) ==
    /\ q \notin DOMAIN pf
    /\ procs[q].alive
    /\ procs' = [procs EXCEPT ![q].alive = FALSE]
    /\ UNCHANGED <<hvars, heap, _sources, _cache, ret, first, nmut, ssrc, sres, files, made,
                   _log_level, log, _stop, _count, sig, fs, pf, thr>>

\* a second passes
Tick ==
    /\ \E q \in Pids : procs[q].alive /\ procs[q].age < MaxAge
    /\ procs' = [q \in Pids |->
                    IF procs[q].alive /\ procs[q].age < MaxAge
                    THEN [procs[q] EXCEPT !.age = @ + 1] ELSE procs[q]]
    /\ UNCHANGED <<hvars, heap, _sources, _cache, ret, first, nmut, ssrc, sres, files, made,
                   _log_level, log, _stop, _count, sig, fs, pf, thr>>

\* Nothing of rocky.process in use
NoProcess ==
    /\ _stop = FALSE
    /\ _count = 0
    /\ sig = NoSig
    /\ fs = Absent
    /\ procs = [q \in Pids |-> [alive |-> FALSE, age |-> 0]]
    /\ pf = <<>>
    /\ thr = <<>>
    /\ NoSignals

-----------------------------------------------------------------------------
(* The resolver under test: Config(S1, S2) over two live dicts *)

S1 == Source("Dict", "d1", "none", "none", None)
S2 == Source("Dict", "d2", "none", "none", None)

\* Source orders given to the constructor or to set_sources, and per call
\* (<<>>: no per-call sources).
ConfiguredLists == {<<S1>>, <<S1, S2>>, <<S2, S1>>}
PerCallLists == {<<>>, <<S1>>, <<S2>>, <<S2, S1>>}

ConfigKeys == {StrKey(sA__B), TupleKey(<<sA, sB>>), TupleKey(<<sA__B>>)}

\* Attribute names are strings.
AttrKeys == {key \in ConfigKeys : key.t = "str"}

Defaults == {None, "23"}

\* What the caller does to the live dicts: d[seg] = val, or del d[seg] (None).
Mutations == {<<"d1c", sB, "99">>, <<"d1", sA__B, "99">>, <<"d2", sA__B, None>>}
LiveObjs == {m[1] : m \in Mutations}

NoCall ==
    [op |-> "none", key |-> StrKey(<<>>), sources |-> <<>>, default |-> None,
     log_level |-> None, log_value |-> TRUE,
     path |-> <<>>, hit |-> FALSE, exc |-> NoExc, value |-> None,
     source |-> NoneSource]

NoResult == [key |-> StrKey(<<>>), called |-> FALSE, exc |-> NoExc, val |-> None]

Pending(key) == [NoResult EXCEPT !.key = key]
SourceResult(key, r) == [key |-> key, called |-> TRUE, exc |-> r.exc, val |-> r.val]

\* The sources under test: every class, each Base subclass with every test
\* include and mapping; file-backed sources loaded and constructed on a
\* missing file in tolerate mode (src or value None).
BasePayloads ==
    {<<"Dict", "d1">>, <<"Dict", "d2">>, <<"Props", "o1">>, <<"Env", None>>,
     <<"PyFile", "o1">>, <<"PyFile", None>>, <<"ConfigFile", "ini">>,
     <<"ConfigFile", None>>}

TestSources ==
    {Source(b[1], b[2], inc, map, None) :
        b \in BasePayloads, inc \in TestIncludes, map \in TestMappings}
    \cup {Source("FileContent", None, "none", "none", "content"),
          Source("FileContent", None, "none", "none", None),
          Default("23")}

GetKeys ==
    {StrKey(s) : s \in Strings} \cup {TupleKey(p) : p \in Paths}
    \cup {ListKey(<<sA, sB>>), ListKey(<<sA__B>>)}

\* The key itself and the other ways to write its path.
AltForms(key) ==
    {key, TupleKey(_key_to_path(key))}
    \cup (IF Len(_key_to_path(key)) = 1 THEN {StrKey(_key_to_path(key)[1])} ELSE {})

FirstOf(f, path) == {e \in f : e.path = path}

\* One call of get / source / get_with_source; get and source return one
\* component of the pair get_with_source returns.
Returned(op, key, sources, default, log_level, log_value, path, r) ==
    /\ _cache' = r.cache
    /\ log' = log \o r.lines
    /\ ret' = [op |-> op, key |-> key, sources |-> sources, default |-> default,
               log_level |-> log_level, log_value |-> log_value, path |-> path, hit |-> r.hit, exc |-> r.exc, value |-> r.value,
               source |-> r.source]
    /\ first' = IF r.value # None /\ FirstOf(first, path) = {}
                THEN first \cup {[path |-> path, value |-> r.value, source |-> r.source]}
                ELSE first

Call(op, key, sources, default, log_level, log_value) ==
    Returned(op, key, sources, default, log_level, log_value, _key_to_path(key),
             get_with_source(_cache, _log_level, _sources, heap, key, sources, default,
                             log_level, log_value))

Config_get_with_source(key, sources, default, log_level, log_value) ==
    /\ Call("get_with_source", key, sources, default, log_level, log_value)
    /\ UNCHANGED <<heap, _sources, nmut, ssrc, sres, files, made, _log_level, pvars>>

\* value, source = self.get_with_source(...); return value
Config_get(key, sources, default, log_level, log_value) ==
    /\ Call("get", key, sources, default, log_level, log_value)
    /\ UNCHANGED <<heap, _sources, nmut, ssrc, sres, files, made, _log_level, pvars>>

\* value, source = self.get_with_source(...); return source
Config_source(key, sources, default, log_level, log_value) ==
    /\ Call("source", key, sources, default, log_level, log_value)
    /\ UNCHANGED <<heap, _sources, nmut, ssrc, sres, files, made, _log_level, pvars>>

\* Names the normal attribute lookup finds on a Config: methods, the sources
\* property, instance fields (a few of them; object defines more).
ConfigAttrs == {sGet, sSources, s_cache}

AttrValue(name) ==
    CASE name = sGet -> "<bound method Config.get>"
      [] name = sSources -> "<the tuple self._sources>"
      [] OTHER -> "<the OrderedDict self._cache>"

\* Mutant: the attribute name is passed on as a path of length 1.
Config_getattr_literal(key) ==
    /\ IF key.v[1] \in ConfigAttrs
       THEN /\ ret' = [NoCall EXCEPT !.op = "attr", !.key = key,
                                     !.path = _key_to_path(key),
                                     !.value = AttrValue(key.v[1])]
            /\ UNCHANGED <<_cache, first, log>>
       ELSE Call("getattr", TupleKey(key.v), <<>>, None, None, TRUE)
    /\ UNCHANGED <<heap, _sources, nmut, ssrc, sres, files, made, _log_level, pvars>>

\* config.<name>: Python calls __getattr__ only when the normal lookup does
\* not find the name; __getattr__ returns self.get(key), the key being the
\* attribute name.
Config_getattr(key) ==
    /\ IF key.v[1] \in ConfigAttrs
       THEN /\ ret' = [NoCall EXCEPT !.op = "attr", !.key = key,
                                     !.path = _key_to_path(key),
                                     !.value = AttrValue(key.v[1])]
            /\ UNCHANGED <<_cache, first, log>>
       ELSE Call("getattr", key, <<>>, None, None, TRUE)
    /\ UNCHANGED <<heap, _sources, nmut, ssrc, sres, files, made, _log_level, pvars>>

\* Walks the cache and logs each entry; changes nothing of the Config.
Config_log_cached(log_level) ==
    /\ Len(log) + Len(_cache) <= MaxLog
    /\ log' = log \o log_cached(_cache, _log_level, log_level)
    /\ ret' = [NoCall EXCEPT !.op = "log_cached", !.log_level = log_level]
    /\ UNCHANGED <<heap, _sources, _cache, first, nmut, ssrc, sres, files, made, _log_level, pvars>>

Config_set_sources(sources) ==
    /\ _sources' = sources
    /\ ret' = [NoCall EXCEPT !.op = "set_sources"]
    /\ UNCHANGED <<heap, _cache, first, nmut, ssrc, sres, files, made, _log_level, log, pvars>>

\* The caller changes a live payload it kept a reference to: d[seg] = val,
\* or del d[seg] when val is None.
Payload_mutate(o, seg, val) ==
    /\ nmut < MaxMutations
    /\ nmut' = nmut + 1
    /\ heap' = [heap EXCEPT ![o] =
                  [k \in (IF val = None THEN DOMAIN heap[o] \ {seg}
                          ELSE DOMAIN heap[o] \cup {seg}) |->
                      IF k = seg THEN val ELSE heap[o][k]]]
    /\ ret' = [NoCall EXCEPT !.op = "mutate"]
    /\ UNCHANGED <<_sources, _cache, first, ssrc, sres, files, made, _log_level, log, pvars>>

\* source.get(key) called directly on the source under test.
Source_get ==
    /\ ~sres.called
    /\ sres' = SourceResult(sres.key, SourceGet(ssrc, heap, sres.key))
    /\ UNCHANGED <<heap, _sources, _cache, ret, first, nmut, ssrc, files, made, _log_level, log, pvars>>

Init ==
    /\ heap = [o \in LiveObjs |-> InitHeap[o]]
    /\ _sources \in ConfiguredLists
    /\ _cache = <<>>
    /\ ret = NoCall
    /\ first = {}
    /\ nmut = 0
    /\ ssrc = NoneSource
    /\ sres = NoResult
    /\ files = [f \in FileNames |-> "present"]
    /\ made = NoMade
    /\ _log_level = "NOTSET"
    /\ log = <<>>
    /\ NoProcess

Next ==
    \/ \E key \in ConfigKeys, sources \in PerCallLists, default \in Defaults,
          log_value \in BOOLEAN :
            Config_get_with_source(key, sources, default, None, log_value)
    \/ \E key \in ConfigKeys, default \in Defaults :
          Config_get(key, <<>>, default, None, TRUE)
    \/ \E key \in ConfigKeys, default \in Defaults :
          Config_source(key, <<>>, default, None, TRUE)
    \/ \E key \in AttrKeys : Config_getattr(key)
    \/ Config_log_cached(None)
    \/ \E sources \in ConfiguredLists : Config_set_sources(sources)
    \/ \E m \in Mutations : Payload_mutate(m[1], m[2], m[3])

Spec == Init /\ [][Next]_vars

\* One source under test, one key: source.get(key) directly, then
\* Config(source) asked for the key in each of its forms.
InitSrc ==
    /\ heap = [o \in LiveObjs |-> InitHeap[o]]
    /\ ssrc \in TestSources
    /\ _sources = <<ssrc>>
    /\ _cache = <<>>
    /\ ret = NoCall
    /\ first = {}
    /\ nmut = 0
    /\ sres \in {Pending(key) : key \in GetKeys}
    /\ files = [f \in FileNames |-> "present"]
    /\ made = NoMade
    /\ _log_level = "NOTSET"
    /\ log = <<>>
    /\ NoProcess

\* Config(source).get_with_source(key) with the defaults of every option.
Config_over_source(key) ==
    /\ sres.called
    /\ Call("get_with_source", key, <<>>, None, None, TRUE)
    /\ UNCHANGED <<heap, _sources, nmut, ssrc, sres, files, made, _log_level, pvars>>

NextSrc ==
    \/ Source_get
    \/ \E key \in AltForms(sres.key) : Config_over_source(key)

SpecSrc == InitSrc /\ [][NextSrc]_vars

-----------------------------------------------------------------------------
(* The resolver with logging: Config(S1, S2, log_level=...) and calls that  *)
(* give or leave out log_level and log_value                                *)

CallLevels == {None, NOTSET, "DEBUG"}

LogKeys == {StrKey(sA__B), TupleKey(<<sA__B>>)}

\* The value at ('a', 'b') changes before or after it is first resolved.
LogMutations == {m \in Mutations : m[1] = "d1c"}

InitLog ==
    /\ heap = [o \in LiveObjs |-> InitHeap[o]]
    /\ _sources = <<S1, S2>>
    /\ _cache = <<>>
    /\ ret = NoCall
    /\ first = {}
    /\ nmut = 0
    /\ ssrc = NoneSource
    /\ sres = NoResult
    /\ files = [f \in FileNames |-> "present"]
    /\ made = NoMade
    /\ _log_level \in {NOTSET, "INFO"}
    /\ log = <<>>
    /\ NoProcess

NextLog ==
    \/ \E key \in LogKeys, log_level \in CallLevels, log_value \in BOOLEAN :
          Config_get_with_source(key, <<>>, None, log_level, log_value)
    \/ \E key \in LogKeys, default \in Defaults : Config_get(key, <<>>, default, None, TRUE)
    \/ \E log_level \in CallLevels : Config_log_cached(log_level)
    \/ \E m \in LogMutations : Payload_mutate(m[1], m[2], m[3])

SpecLog == InitLog /\ [][NextLog]_vars

-----------------------------------------------------------------------------
(* Attribute access next to get: Config(S1, S2), names asked as config.NAME *)
(* and as config.get('NAME')                                                *)

AttrNames == {sA__B, sA_B, sB, sGet, s_cache}

InitAttr ==
    /\ heap = [o \in LiveObjs |-> InitHeap[o]]
    /\ _sources \in {<<S1, S2>>, <<S2>>}
    /\ _cache = <<>>
    /\ ret = NoCall
    /\ first = {}
    /\ nmut = 0
    /\ ssrc = NoneSource
    /\ sres = NoResult
    /\ files = [f \in FileNames |-> "present"]
    /\ made = NoMade
    /\ _log_level = NOTSET
    /\ log = <<>>
    /\ NoProcess

NextAttr ==
    \/ \E name \in AttrNames : Config_getattr(StrKey(name))
    \/ \E name \in AttrNames : Config_get(StrKey(name), <<>>, None, None, TRUE)
    \/ \E m \in LogMutations : Payload_mutate(m[1], m[2], m[3])

SpecAttr == InitAttr /\ [][NextAttr]_vars

-----------------------------------------------------------------------------
(* File-backed sources: construction on a file, then lookups while the file *)
(* comes and goes                                                           *)

FileKeys == ConfigKeys \cup {StrKey(sA), StrKey(sB), TupleKey(<<sA>>), TupleKey(<<>>)}

Encodings == {"utf-8", None}

Constructed(m) ==
    /\ made = NoMade
    /\ made' = m
    /\ ssrc' = m.source

PyFile_init(filename, fail_on_not_found) ==
    /\ Constructed(PyFile_new(files[filename], fail_on_not_found))
    /\ UNCHANGED <<heap, _sources, _cache, ret, first, nmut, sres, files, _log_level, log, pvars>>

ConfigFile_init(filename, fail_on_not_found) ==
    /\ Constructed(ConfigFile_new(files[filename], fail_on_not_found))
    /\ UNCHANGED <<heap, _sources, _cache, ret, first, nmut, sres, files, _log_level, log, pvars>>

FileContent_init(filename, fail_on_read_error, strip, encoding) ==
    /\ Constructed(FileContent_new(files[filename], fail_on_read_error, strip, encoding))
    /\ UNCHANGED <<heap, _sources, _cache, ret, first, nmut, sres, files, _log_level, log, pvars>>

\* Somebody creates, removes, protects or rewrites the file.
File_change(filename, state) ==
    /\ nmut < MaxMutations + 1
    /\ files[filename] # state
    /\ nmut' = nmut + 1
    /\ files' = [files EXCEPT ![filename] = state]
    /\ UNCHANGED <<heap, _sources, _cache, ret, first, ssrc, sres, made, _log_level, log, pvars>>

\* source.get(key) on the constructed source, any number of times.
File_source_get(key) ==
    /\ made # NoMade /\ made.exc = NoExc
    /\ sres' = SourceResult(key, SourceGet(ssrc, heap, key))
    /\ UNCHANGED <<heap, _sources, _cache, ret, first, nmut, ssrc, files, made, _log_level, log, pvars>>

InitFile ==
    /\ heap = [o \in LiveObjs |-> InitHeap[o]]
    /\ _sources = <<>>
    /\ _cache = <<>>
    /\ ret = NoCall
    /\ first = {}
    /\ nmut = 0
    /\ ssrc = NoneSource
    /\ sres = NoResult
    /\ files \in [FileNames -> FileStates]
    /\ made = NoMade
    /\ _log_level = "NOTSET"
    /\ log = <<>>
    /\ NoProcess

NextFile ==
    \/ \E f \in FileNames, fail \in BOOLEAN : PyFile_init(f, fail)
    \/ \E f \in FileNames, fail \in BOOLEAN : ConfigFile_init(f, fail)
    \/ \E f \in FileNames, fail \in BOOLEAN, strip \in BOOLEAN, encoding \in Encodings :
          FileContent_init(f, fail, strip, encoding)
    \/ \E f \in FileNames, state \in FileStates : File_change(f, state)
    \/ \E key \in FileKeys : File_source_get(key)

SpecFile == InitFile /\ [][NextFile]_vars

-----------------------------------------------------------------------------
(* rocky.process under test: a stoppable and the signals of its process;   *)
(* a pid_file instance entered and left while the process named in an      *)
(* existing pid file lives, ages and ends                                  *)

\* Nothing of rocky.config in use
NoConfig ==
    /\ heap = [o \in LiveObjs |-> InitHeap[o]]
    /\ _sources = <<>>
    /\ _cache = <<>>
    /\ ret = NoCall
    /\ first = {}
    /\ nmut = 0
    /\ ssrc = NoneSource
    /\ sres = NoResult
    /\ files = [f \in FileNames |-> "missing"]
    /\ made = NoMade
    /\ _log_level = "NOTSET"
    /\ log = <<>>

InitStop ==
    /\ NoConfig
    /\ _stop = FALSE
    /\ _count \in Counts
    /\ sig = stoppable_new(_count)
    /\ fs = Absent
    /\ procs = [q \in Pids |-> [alive |-> FALSE, age |-> 0]]
    /\ pf = <<>>
    /\ thr = <<>>
    /\ NoSignals

NextStop ==
    \/ stoppable_on_signal
    \/ \E throw \in BOOLEAN : stoppable_check_stop(throw)
    \/ stoppable_stop

SpecStop == InitStop /\ [][NextStop]_vars

\* Process 1 uses the pid file; process 2 is the one an existing file names.
InitPid ==
    /\ NoConfig
    /\ _stop = FALSE
    /\ _count = 0
    /\ sig = NoSig
    /\ fs \in {Absent, Unparsable, Holds(2)}
    /\ procs \in {[q \in Pids |-> [alive |-> q = 1 \/ (q = 2 /\ a), age |-> 0]] : a \in BOOLEAN}
    /\ pf \in {[p \in {1} |-> pid_file_new(m, mc, ec, dc)] :
                  m \in MaxAges, mc \in MaxAgeCallbacks, ec \in ExistingCallbacks,
                  dc \in DeadCallbacks}
    /\ thr = <<>>
    /\ NoSignals

NextPid ==
    \/ \E p \in DOMAIN pf : pid_file_enter(p)
    \/ \E p \in DOMAIN pf : pid_file_open_x(p)
    \/ \E p \in DOMAIN pf : pid_file_open_r(p)
    \/ \E p \in DOMAIN pf : pid_file_probe(p)
    \/ \E p \in DOMAIN pf, exc_type \in ExcTypes : pid_file_leave(p, exc_type)
    \/ \E q \in Pids : Process_ends(q)
    \/ Tick

SpecPid == InitPid /\ [][NextPid]_vars

\* Processes 1 and 2 use the same pid file path, each with its own pid_file
\* instance, and run whenever the scheduler lets them; process 3 is the one
\* a file left from before names.  An instance has the default callbacks or
\* an existing_callback that returns False (go on without a pid file).
SharedInstances ==
    {pid_file_new(NoneAge, None, None, None), pid_file_new(NoneAge, None, "false", None)}

InitShared ==
    /\ NoConfig
    /\ _stop = FALSE
    /\ _count = 0
    /\ sig = NoSig
    /\ fs \in {Absent, Holds(3)}
    /\ procs \in {[q \in Pids |-> [alive |-> q # 3 \/ a, age |-> 0]] : a \in BOOLEAN}
    /\ pf \in [{1, 2} -> SharedInstances]
    /\ thr = <<>>
    /\ NoSignals

SpecShared == InitShared /\ [][NextPid]_vars

\* Two context managers of one process, used in properly nested with-blocks
\* (an instance may also be entered again inside itself: it is a
\* ContextDecorator).  Each is a handle_signals with any signums up to
\* MaxSignums long and with or without a handler argument; stoppable() and
\* pstack() are among them.
Cms == {1, 2}

RECURSIVE SeqsUpTo(_, _)
SeqsUpTo(S, n) ==
    IF n = 0 THEN {<<>>}
    ELSE LET shorter == SeqsUpTo(S, n - 1)
         IN  shorter \cup {Append(q, s) : q \in shorter, s \in S}

SignumChoices == SeqsUpTo(Signals, MaxSignums) \cup {stoppable_signums, pstack_signums}

InitSig ==
    /\ NoConfig
    /\ _stop = FALSE
    /\ _count = 0
    /\ sig = NoSig
    /\ fs = Absent
    /\ procs = [q \in Pids |-> [alive |-> FALSE, age |-> 0]]
    /\ pf = <<>>
    /\ thr = <<>>
    /\ handlers \in [Signals -> {SIG_DFL, SIG_IGN, NoneHandler, a_handler}]
    /\ cms \in {[i \in Cms |-> handle_signals_new(i, sn[i], h[i])] :
                   sn \in [Cms -> SignumChoices], h \in [Cms -> {NoneHandler, a_handler}]}
    /\ active = <<>>

NextSig ==
    \/ \E i \in DOMAIN cms : cm_enter(i)
    \/ cm_exit

SpecSig == InitSig /\ [][NextSig]_vars

\* A process inside __enter__ goes on running: its next system call happens.
EnterStep ==
    \E p \in DOMAIN pf : pid_file_open_x(p) \/ pid_file_open_r(p) \/ pid_file_probe(p)

FairPid == SpecPid /\ WF_vars(EnterStep)

-----------------------------------------------------------------------------
(* Unsynchronized callers of one Config: get_with_source is followed         *)
(* statement by statement (the cache lookup, the loop over the sources, the  *)
(* insert), and another thread may run between two of them                   *)

Threads == {1, 2}

NoThread ==
    [pc |-> "idle", key |-> StrKey(<<>>), path |-> <<>>, sources |-> <<>>,
     hit |-> FALSE, value |-> None, source |-> NoneSource, calls |-> 0,
     wrote |-> Entry(<<>>, None, NoneSource, TRUE), last |-> FALSE]

\* Both keys name the path ('a', 'b'); S1 and S2 hold different values for it.
RaceKeys == {StrKey(sA__B), TupleKey(<<sA, sB>>)}
RaceLists == {<<>>, <<S2>>}
RaceConfigured == {<<S1, S2>>, <<S2, S1>>}

\* line 337: path = _key_to_path(key)
Thread_call(t, key, sources) ==
    /\ thr[t].pc \in {"idle", "done"}
    /\ thr[t].calls < MaxCalls
    /\ thr' = [thr EXCEPT ![t] = [@ EXCEPT !.pc = "lookup", !.key = key,
                                    !.path = _key_to_path(key), !.sources = sources,
                                    !.hit = FALSE, !.value = None,
                                    !.source = NoneSource, !.calls = @ + 1]]
    /\ UNCHANGED <<hvars, heap, _sources, _cache, ret, first, nmut, ssrc, sres, files, made,
                   _log_level, log, _stop, _count, sig, fs, procs, pf>>

\* lines 339-341: the cache lookup, and the return on a hit
Thread_lookup(t) ==
    /\ thr[t].pc = "lookup"
    /\ thr' = [thr EXCEPT ![t] =
                 IF CacheGet(_cache, thr[t].path).value # None
                 THEN [@ EXCEPT !.pc = "done", !.hit = TRUE,
                                !.value = CacheGet(_cache, thr[t].path).value,
                                !.source = CacheGet(_cache, thr[t].path).source]
                 ELSE [@ EXCEPT !.pc = "loop"]]
    /\ UNCHANGED <<hvars, heap, _sources, _cache, ret, first, nmut, ssrc, sres, files, made,
                   _log_level, log, _stop, _count, sig, fs, procs, pf>>

Resolved_by(t) == Resolve(EffectiveSources(thr[t].sources, _sources, None), heap, thr[t].path)

\* lines 346-349, 352: the loop over the effective sources up to the first
\* value that is not None
Thread_loop(t) ==
    /\ thr[t].pc = "loop"
    /\ Resolved_by(t).exc = NoExc
    /\ thr' = [thr EXCEPT ![t] =
                 [@ EXCEPT !.pc = IF Resolved_by(t).value = None THEN "done" ELSE "insert",
                           !.value = Resolved_by(t).value,
                           !.source = Resolved_by(t).source]]
    /\ UNCHANGED <<hvars, heap, _sources, _cache, ret, first, nmut, ssrc, sres, files, made,
                   _log_level, log, _stop, _count, sig, fs, procs, pf>>

\* lines 350-351: self._cache_and_log(...) and the return.  The thread's
\* wrote and last are history: what it inserted, and whether that is the
\* latest insert for the path.
Thread_insert(t) ==
    /\ thr[t].pc = "insert"
    /\ _cache' = _cache_and_log(_cache, thr[t].path, thr[t].value, thr[t].source, None, TRUE)
    /\ log' = log \o _log(_log_level, thr[t].path, thr[t].value, thr[t].source, None, TRUE)
    /\ thr' = [u \in Threads |->
                 IF u = t
                 THEN [thr[t] EXCEPT !.pc = "done", !.last = TRUE,
                          !.wrote = Entry(thr[t].path, thr[t].value, thr[t].source, TRUE)]
                 ELSE IF thr[u].wrote.path = thr[t].path
                 THEN [thr[u] EXCEPT !.last = FALSE]
                 ELSE thr[u]]
    /\ UNCHANGED <<hvars, heap, _sources, ret, first, nmut, ssrc, sres, files, made,
                   _log_level, _stop, _count, sig, fs, procs, pf>>

InitRace ==
    /\ heap = [o \in LiveObjs |-> InitHeap[o]]
    /\ _sources \in RaceConfigured
    /\ _cache = <<>>
    /\ ret = NoCall
    /\ first = {}
    /\ nmut = 0
    /\ ssrc = NoneSource
    /\ sres = NoResult
    /\ files = [f \in FileNames |-> "missing"]
    /\ made = NoMade
    /\ _log_level = NOTSET
    /\ log = <<>>
    /\ _stop = FALSE
    /\ _count = 0
    /\ sig = NoSig
    /\ fs = Absent
    /\ procs = [q \in Pids |-> [alive |-> FALSE, age |-> 0]]
    /\ pf = <<>>
    /\ thr = [t \in Threads |-> NoThread]
    /\ NoSignals

NextRace ==
    \/ \E t \in Threads, key \in RaceKeys, sources \in RaceLists : Thread_call(t, key, sources)
    \/ \E t \in Threads : Thread_lookup(t)
    \/ \E t \in Threads : Thread_loop(t)
    \/ \E t \in Threads : Thread_insert(t)
    \/ \E sources \in RaceConfigured : Config_set_sources(sources)

SpecRace == InitRace /\ [][NextRace]_vars

-----------------------------------------------------------------------------
(* Properties of the resolver (specification Spec) *)

GetOps == {"get", "source", "get_with_source", "getattr"}

IsGet(r) == r.op \in GetOps /\ r.exc = NoExc

\* What source s answers for the path right now.
Answer(s, path) == SourceGet(s, heap, TupleKey(path)).val

\* The sources of list L answering the path with a non-null value.
Answering(L, path) == {i \in 1..Len(L) : Answer(L[i], path) # None}

\* (value, source) is the answer of the first source of L that has one.
FirstAnswer(L, path, value, source) ==
    \E i \in Answering(L, path) :
        /\ \A j \in 1..(i - 1) : Answer(L[j], path) = None
        /\ source = L[i]
        /\ value = Answer(L[i], path)

\* C1: once a call returned a non-null value v from source s for a path,
\* every later get / source / get_with_source for that path returns v and s,
\* whatever was mutated, reordered or passed in between.
C1_CacheStability ==
    IsGet(ret) =>
        \A f \in FirstOf(first, ret.path) :
            ret.value = f.value /\ ret.source = f.source

\* C1 witness: a call answered with the first value although the payload was
\* mutated and the sources and default of this call would now give another.
C1_Witness ==
    /\ IsGet(ret) /\ ret.hit /\ nmut > 0
    /\ ret.sources # <<>> /\ ret.default # None
    /\ Resolve(EffectiveSources(ret.sources, _sources, ret.default), heap, ret.path).value
         # ret.value

\* C2: for an uncached path and no per-call sources the result is the answer
\* of the first source of the configured order that has one.
C2_SourcePrecedence ==
    (IsGet(ret) /\ ~ret.hit /\ ret.sources = <<>> /\ Answering(_sources, ret.path) # {})
        => FirstAnswer(_sources, ret.path, ret.value, ret.source)

\* C2 witness: the order was S1, S2; S1 had no answer and S2 answered.
C2_Witness ==
    /\ IsGet(ret) /\ ~ret.hit /\ ret.sources = <<>>
    /\ _sources = <<S1, S2>> /\ ret.source = S2 /\ ret.value = "19"

\* C3: for an uncached path and a non-empty per-call list the result is the
\* first answer among exactly those sources, then the default, then
\* (None, None); the configured sources are not consulted.
C3_PerCallOverride ==
    (IsGet(ret) /\ ~ret.hit /\ ret.sources # <<>>) =>
        IF Answering(ret.sources, ret.path) # {}
        THEN FirstAnswer(ret.sources, ret.path, ret.value, ret.source)
        ELSE IF ret.default # None
        THEN ret.value = ret.default /\ ret.source = Default(ret.default)
        ELSE ret.value = None /\ ret.source = NoneSource

\* C3 witness: the per-call source has no answer, a configured source has
\* one, and the call returned (None, None).
C3_Witness ==
    /\ IsGet(ret) /\ ~ret.hit /\ ret.sources = <<S1>> /\ ret.default = None
    /\ Answering(_sources, ret.path) # {}
    /\ ret.value = None /\ ret.source = NoneSource

\* C4: when no source of the effective list answers and a default d is
\* given, the call returns d from a Default source and caches the pair; a
\* Default source is returned only when no source of the list answers; a
\* cached default is returned by later calls whatever their default.
C4_DefaultFallback ==
    LET L == IF ret.sources # <<>> THEN ret.sources ELSE _sources
    IN /\ (IsGet(ret) /\ ~ret.hit /\ Answering(L, ret.path) = {} /\ ret.default # None)
            => /\ ret.value = ret.default
               /\ ret.source = Default(ret.default)
               /\ CacheGet(_cache, ret.path).value = ret.default
               /\ CacheGet(_cache, ret.path).source = Default(ret.default)
       /\ (IsGet(ret) /\ ~ret.hit /\ ret.source.cls = "Default")
            => Answering(L, ret.path) = {}
       /\ (IsGet(ret) /\ ret.hit)
            => /\ ret.value = CacheGet(_cache, ret.path).value
               /\ ret.source = CacheGet(_cache, ret.path).source

\* C4 witness: a later call without a default returns the cached default
\* although a configured source now answers differently.
C4_Witness ==
    /\ IsGet(ret) /\ ret.hit /\ ret.default = None /\ ret.sources = <<>>
    /\ ret.source = Default("23") /\ ret.value = "23"

\* C5: a call for an uncached path in which no source of the effective list
\* answers and no default is given returns (None, None) and leaves the cache
\* as it was; a call that returns None never changes the cache.
C5_NoneLeavesCache ==
    [][(ret'.op \in GetOps /\ ret'.exc = NoExc /\ ~ret'.hit) =>
          /\ (/\ ret'.default = None
              /\ Answering(IF ret'.sources # <<>> THEN ret'.sources ELSE _sources,
                           ret'.path) = {})
                => (ret'.value = None /\ ret'.source = NoneSource)
          /\ ret'.value = None => (ret'.source = NoneSource /\ _cache' = _cache)
          /\ (ret'.value # None /\ CachedAt(_cache, ret'.path) = {})
                => CacheGet(_cache', ret'.path).value = ret'.value]_vars

\* C5 witness: a call returned (None, None) with other paths cached, for a
\* path that a configured source answers.
C5_Witness ==
    /\ IsGet(ret) /\ ~ret.hit /\ ret.value = None /\ ret.source = NoneSource
    /\ _cache # <<>> /\ CachedAt(_cache, ret.path) = {}
    /\ Answering(_sources, ret.path) # {}

\* C6: cache entries are write-once: one entry per path, never a null value;
\* a step never changes or removes an entry; an entry is added only by a
\* get-call that missed and resolved, it is added at the end, and it holds
\* the call's path, its value and the source whose get returned that value.
C6_CacheShape ==
    /\ \A i, j \in 1..Len(_cache) : _cache[i].path = _cache[j].path => i = j
    /\ \A i \in 1..Len(_cache) : _cache[i].value # None

C6_CacheStep ==
    /\ Len(_cache') \in {Len(_cache), Len(_cache) + 1}
    /\ \A i \in 1..Len(_cache) : _cache'[i] = _cache[i]
    /\ (ret'.op \in GetOps /\ ret'.exc = NoExc /\ ~ret'.hit /\ ret'.value # None)
          => Len(_cache') = Len(_cache) + 1
    /\ Len(_cache') = Len(_cache) + 1 =>
          /\ ret'.op \in GetOps /\ ~ret'.hit
          /\ CachedAt(_cache, ret'.path) = {}
          /\ _cache'[Len(_cache')].path = ret'.path
          /\ _cache'[Len(_cache')].value = ret'.value
          /\ _cache'[Len(_cache')].source = ret'.source
          /\ SourceGet(ret'.source, heap, TupleKey(ret'.path)).val = ret'.value

C6_WriteOnce == [](C6_CacheShape) /\ [][C6_CacheStep]_vars

\* C6 witness: two entries, the older one still there after a mutation of the
\* payload it came from and a later call for its path.
C6_Witness ==
    /\ Len(_cache) = 2 /\ nmut > 0 /\ IsGet(ret) /\ ret.hit
    /\ ret.path = _cache[1].path
    /\ Answer(_cache[1].source, ret.path) # _cache[1].value

-----------------------------------------------------------------------------
(* Properties of the sources (specification SpecSrc) *)

BaseClasses == {"Dict", "Props", "Env", "PyFile", "ConfigFile"}

HasSep(s) == \E i \in 1..(Len(s) - 1) : s[i] = "_" /\ s[i + 1] = "_"

\* '__'.join(p) for a non-empty p
RECURSIVE Join(_)
Join(p) == IF Len(p) = 1 THEN p[1] ELSE p[1] \o <<"_", "_">> \o Join(Tail(p))

\* p is s cut at its '__' separators, found from the left: joining p gives
\* s back, no segment holds a separator, and no segment before the last one
\* ends where a separator could have started one character earlier.
IsSplitOf(p, s) ==
    /\ Len(p) >= 1
    /\ Join(p) = s
    /\ \A i \in 1..Len(p) :
          /\ ~HasSep(p[i])
          /\ i < Len(p) => (p[i] = <<>> \/ p[i][Len(p[i])] # "_")

SubStrings(s) == {SubSeq(s, i, j) : i \in 1..(Len(s) + 1), j \in 0..Len(s)}

SplitCandidates(s) ==
    UNION {[1..n -> SubStrings(s)] : n \in 1..((Len(s) \div 2) + 1)}

\* The value at a path of nested dicts: the value at the path without its
\* last segment must be a dict that holds the last segment.
RECURSIVE ValueAt(_, _)
ValueAt(root, p) ==
    IF p = <<>> THEN root
    ELSE LET parent == ValueAt(root, SubSeq(p, 1, Len(p) - 1))
             last == p[Len(p)]
         IN IF /\ parent \in Objs
               /\ ObjKind(parent) = "dict"
               /\ last \in DOMAIN Items(heap, parent)
            THEN Items(heap, parent)[last]
            ELSE None

PlainDict(s) == s.cls = "Dict" /\ s.include = "none" /\ s.mapping = "none"

\* C7: source.get(key) and Config.get(key) never raise, for every source
\* class, include filter and mapping, and every str or sequence key.
C7_LookupNeverRaises ==
    /\ sres.called => sres.exc = NoExc
    /\ ret.op \in GetOps => ret.exc = NoExc

\* C8: a str key is split on '__' into its path, a sequence key is taken as
\* it is; a Dict source returns the value at that path of nested dicts, None
\* as soon as a segment is missing or the value reached is not a dict. Over
\* {a: {b: 27}}: 'a__b', ('a','b') and ['a','b'] give 27; ('a__b',) is the
\* top-level key 'a__b' (absent in d1: None; present in d2: its value).
C8_KeyCanonicalization ==
    (sres.called /\ PlainDict(ssrc)) =>
        /\ sres.exc = NoExc
        /\ sres.key.t \in {"tuple", "list"} => sres.val = ValueAt(ssrc.src, sres.key.v)
        /\ sres.key.t = "str" =>
              \E p \in SplitCandidates(sres.key.v[1]) :
                  /\ IsSplitOf(p, sres.key.v[1])
                  /\ sres.val = ValueAt(ssrc.src, p)
        /\ (ssrc.src = "d1" /\ sres.key \in {StrKey(sA__B), TupleKey(<<sA, sB>>),
                                              ListKey(<<sA, sB>>)})
              => sres.val = "27"
        /\ sres.key = TupleKey(<<sA__B>>)
              => sres.val = (IF ssrc.src = "d1" THEN None ELSE "19")

\* C8 witness: get('a__b') on the plain Dict over d1 returned 27.
C8_Witness ==
    /\ sres.called /\ PlainDict(ssrc) /\ ssrc.src = "d1"
    /\ sres.key = StrKey(sA__B) /\ sres.val = "27"

Single(key) == key.t \in {"str", "tuple"} /\ Len(key.v) = 1 /\ ~HasSep(key.v[1])

OtherForm(key) == IF key.t = "str" THEN TupleKey(key.v) ELSE StrKey(key.v[1])

\* C9: for a string s without '__', get(s) and get((s,)) give the same
\* outcome on every source; an include or mapping entry written s or (s,)
\* matches both; Config holds both forms under one cache entry.
C9_SingletonEquivalence ==
    /\ (sres.called /\ Single(sres.key)) =>
          /\ SourceGet(ssrc, heap, OtherForm(sres.key)).exc = sres.exc
          /\ SourceGet(ssrc, heap, OtherForm(sres.key)).val = sres.val
    /\ (sres.called /\ ssrc.cls = "Dict" /\ ssrc.src = "d1"
            /\ sres.key \in {StrKey(sA), TupleKey(<<sA>>)}) =>
          /\ (ssrc.include \in {"str", "tuple"} /\ ssrc.mapping = "none")
                => sres.val = "d1c"
          /\ (ssrc.include \in {"none", "str", "tuple"} /\ ssrc.mapping \in {"str", "tuple"})
                => sres.val = "27"
    /\ (IsGet(ret) /\ Single(ret.key)) =>
          /\ ret.path = <<ret.key.v[1]>>
          /\ Cardinality(CachedAt(_cache, ret.path)) <= 1
          /\ Single(sres.key) => \A i \in 1..Len(_cache) : i = 1 /\ _cache[i].path = ret.path

\* C9 witness: include names 'a', the mapping names ('a',); get(('a',)) was
\* mapped, Config resolved one form and answered the other from its cache.
C9_Witness ==
    /\ ssrc = Source("Dict", "d1", "str", "tuple", None)
    /\ sres.called /\ sres.key = TupleKey(<<sA>>) /\ sres.val = "27"
    /\ IsGet(ret) /\ ret.hit /\ ret.key = StrKey(sA) /\ ret.value = "27"
    /\ Len(_cache) = 1

CanonicalPath(key) == IF key.t = "str" THEN split(key.v[1]) ELSE key.v

Admitted(include, path) ==
    \/ TupleKey(path) \in include
    \/ Len(path) = 1 /\ StrKey(path[1]) \in include

Unfiltered(s) == [s EXCEPT !.include = "none"]
Unmapped(s) == [s EXCEPT !.mapping = "none"]

DictTarget(M, p) ==
    IF TupleKey(p) \in DOMAIN M THEN as_path(M[TupleKey(p)])
    ELSE IF Len(p) = 1 /\ StrKey(p[1]) \in DOMAIN M THEN as_path(M[StrKey(p[1])])
    ELSE p

\* C12: with a dictionary mapping M a source fetches at as_path(M[p]) if the
\* canonical path p is a key of M, else at as_path(M[s]) if p = (s,) and s is
\* a key of M, else at p: what it returns is what the same source without
\* mapping returns for that path given as a tuple. An unmapped key stays
\* gettable, and a mapped string is not split on '__'.
C12_DictMappingRule ==
    (/\ sres.called /\ ssrc.cls \in BaseClasses
     /\ MappingDef(ssrc.mapping).t = "dict"
     /\ \/ IncludeDef(ssrc.include) = {}
        \/ Admitted(IncludeDef(ssrc.include), CanonicalPath(sres.key))) =>
        /\ sres.exc = NoExc
        /\ sres.val =
              SourceGet(Unfiltered(Unmapped(ssrc)), heap,
                        TupleKey(DictTarget(MappingDef(ssrc.mapping).m,
                                            CanonicalPath(sres.key)))).val
        /\ (ssrc.cls = "Dict" /\ ssrc.src = "d1" /\ ssrc.mapping = "str"
                /\ ssrc.include = "none" /\ sres.key = StrKey(sB))
              => sres.val = "27"
        /\ (ssrc.cls = "Dict" /\ ssrc.src = "d2" /\ ssrc.mapping = "flat"
                /\ sres.key \in {StrKey(sA__B), TupleKey(<<sA, sB>>)})
              => sres.val = "19"

\* C12 witness: mapping {('a','b'): 'a__b'} over d2; get('a__b') returned the
\* value of the top-level key 'a__b' (19), not the one at ('a','b') (28).
C12_Witness ==
    /\ ssrc = Source("Dict", "d2", "none", "flat", None)
    /\ sres.called /\ sres.key = StrKey(sA__B) /\ sres.val = "19"
    /\ ValueAt("d2", <<sA, sB>>) = "28"

\* The requested path as one flat name: its segments joined by '__'.
FlatName(p) == IF p = <<>> THEN <<>> ELSE Join(p)

FnSources == {s \in TestSources : MappingDef(s.mapping).t = "fn"}

\* C13: a function mapping is called with the flat name, a string, of the
\* requested key, and the source fetches at the path form of what the
\* function returns; for a path of length 1 the string and the one-element
\* tuple give the same result.
C13_FunctionMapping ==
    (/\ sres.called /\ ssrc \in FnSources
     /\ \/ IncludeDef(ssrc.include) = {}
        \/ Admitted(IncludeDef(ssrc.include), CanonicalPath(sres.key))) =>
        /\ sres.exc = NoExc
        /\ sres.val =
              SourceGet(Unfiltered(Unmapped(ssrc)), heap,
                        TupleKey(as_path(ApplyFn(MappingDef(ssrc.mapping).f,
                                                 StrKey(FlatName(CanonicalPath(sres.key)))).key))).val
        /\ Single(sres.key) =>
              sres.val = SourceGet(ssrc, heap, OtherForm(sres.key)).val

\* C14: with the mapping {'b__a': ('a','b')} get('b__a') is mapped to
\* ('a','b') and get(('b','a')) is not mapped; with {('b','a'): ('a','b')}
\* both get(('b','a')) and get('b__a') are mapped to ('a','b').
C14_StringKeyedPathMapping ==
    (sres.called /\ ssrc.cls = "Dict" /\ ssrc.src = "d1" /\ ssrc.include = "none") =>
        /\ (ssrc.mapping = "sepkey" /\ sres.key = StrKey(sB__A))
              => sres.val = ValueAt("d1", <<sA, sB>>)
        /\ (ssrc.mapping = "sepkey" /\ sres.key = TupleKey(<<sB, sA>>))
              => sres.val = ValueAt("d1", <<sB, sA>>)
        /\ (ssrc.mapping = "path" /\ sres.key \in {StrKey(sB__A), TupleKey(<<sB, sA>>)})
              => sres.val = ValueAt("d1", <<sA, sB>>)

\* The path a source hands to its fetch for a requested key.
Fetched(s, key) ==
    _filter_map(IncludeDef(s.include), MappingDef(s.mapping), CanonicalPath(key))

FetchLen(s, key) ==
    IF Fetched(s, key).exc = NoExc /\ ~Fetched(s, key).none
    THEN Len(Fetched(s, key).path) ELSE 0 - 1

\* C15 as claimed: Env.get returns None for every requested key whose
\* canonical path has a length other than 1, whatever the filter and the
\* mapping; ConfigFile.get returns None for every requested path whose length
\* is not 2.
C15_RequestedPathShape ==
    sres.called =>
        /\ (ssrc.cls = "Env" /\ Len(CanonicalPath(sres.key)) # 1) => sres.val = None
        /\ (ssrc.cls = "ConfigFile" /\ Len(CanonicalPath(sres.key)) # 2) => sres.val = None

\* C15 as amended: Env.get returns None whenever the path handed to the
\* fetch, i.e. the requested path after filter and mapping, has a length
\* other than 1, and ConfigFile.get whenever it has a length other than 2. In
\* particular, without a mapping, for every requested key of another length,
\* even if the '__'-joined name is an environment variable.
C15_FetchedPathShape ==
    sres.called =>
        /\ (ssrc.cls = "Env" /\ FetchLen(ssrc, sres.key) \notin {0 - 1, 1}) => sres.val = None
        /\ (ssrc.cls = "ConfigFile" /\ FetchLen(ssrc, sres.key) \notin {0 - 1, 2})
              => sres.val = None
        /\ (ssrc.cls = "Env" /\ ssrc.mapping = "none" /\ Len(CanonicalPath(sres.key)) # 1)
              => (sres.val = None /\ sres.exc = NoExc)
        /\ (ssrc.cls = "ConfigFile" /\ ssrc.mapping = "none"
                /\ Len(CanonicalPath(sres.key)) # 2)
              => (sres.val = None /\ sres.exc = NoExc)
        /\ (ssrc.cls = "Env" /\ ssrc.mapping = "none" /\ ssrc.include = "none") =>
              /\ sres.key = StrKey(sA__B) => sres.val = None
              /\ sres.key = TupleKey(<<sA__B>>) => sres.val = "e44"

\* C15 witness: 'a__b' is an environment variable; get('a__b') on a plain Env
\* returned None.
C15_Witness ==
    /\ ssrc = Source("Env", None, "none", "none", None)
    /\ sres.called /\ sres.key = StrKey(sA__B) /\ sres.val = None
    /\ sA__B \in DOMAIN Items(heap, "environ")

-----------------------------------------------------------------------------
(* Properties of the file-backed sources (specification SpecFile) *)

\* C16: PyFile and ConfigFile on a missing file raise FileNotFoundError
\* unless fail_on_not_found is False; FileContent raises only when
\* fail_on_read_error is True; a source constructed in tolerate mode on a
\* missing file returns None for every key on every later get, whatever
\* becomes of the file; no lookup on a file-backed source raises.
C16_ConstructionFailureOnly ==
    /\ (made.cls \in {"PyFile", "ConfigFile"} /\ made.found = "missing") =>
          made.exc = (IF made.tolerate THEN NoExc ELSE "FileNotFoundError")
    /\ (made.cls = "FileContent" /\ made.exc # NoExc) => ~made.tolerate
    /\ (made.cls # "None" /\ made.found = "missing" /\ made.tolerate /\ sres.called)
          => sres.val = None
    /\ sres.called => sres.exc = NoExc

-----------------------------------------------------------------------------
(* Properties of the logging (specification SpecLog) *)

\* The level a call logs at: its own log_level, else the constructor's.
EffLevel(log_level) == IF log_level = None THEN _log_level ELSE log_level

\* The line for a value, or for the redaction marker.
LineOf(level, path, value, source) ==
    [level |-> level, key |-> as_key(path), value |-> value, cls |-> source.cls,
     name |-> SourceName(source)]

Resolved(r) == r.op \in GetOps /\ ~r.hit /\ r.exc = NoExc /\ r.value # None

\* A step of get / source / get_with_source / attribute access, seen from the
\* call it records: it logs one line exactly when it resolved the path afresh
\* at a level other than NOTSET; no entry of the cache is touched, so no path
\* is resolved, and logged, a second time.
C17_Step ==
    ret'.op \in GetOps =>
        /\ (Resolved(ret') /\ EffLevel(ret'.log_level) # NOTSET) =>
              /\ log' = Append(log, LineOf(EffLevel(ret'.log_level), ret'.path,
                                           IF ret'.log_value THEN ret'.value ELSE NotLogged,
                                           ret'.source))
              /\ CachedAt(_cache, ret'.path) = {}
        /\ ~(Resolved(ret') /\ EffLevel(ret'.log_level) # NOTSET) => log' = log
        /\ ret'.hit => CachedAt(_cache, ret'.path) # {}
        /\ Resolved(ret') => CachedAt(_cache', ret'.path) # {}
        /\ \A i \in 1..Len(_cache) : i <= Len(_cache') /\ _cache'[i] = _cache[i]

\* C17: get / get_with_source emits exactly one log line when a path is first
\* resolved and the effective level (the call's log_level if given, else the
\* constructor's) is not NOTSET; a call answered from the cache or resolving
\* nothing emits none; so get logs each path at most once.
C17_FirstUseLogging == [][C17_Step]_vars

\* C17 witness: the Config was built with NOTSET, a get_with_source given
\* log_level DEBUG resolved a path and logged it; a later call hit the cache.
C17_Witness ==
    /\ _log_level = NOTSET /\ Len(log) = 1 /\ log[1].level = "DEBUG"
    /\ ret.op \in GetOps /\ ret.hit /\ ret.log_level = "DEBUG"
    /\ log[1].key = as_key(ret.path)

\* What log_cached hands to the logger for the cache as it is.
Replay(cache, level) ==
    IF level = NOTSET THEN <<>>
    ELSE [i \in 1..Len(cache) |->
            LineOf(level, cache[i].path,
                   IF cache[i].log_value THEN cache[i].value ELSE NotLogged,
                   cache[i].source)]

C18_Step ==
    /\ ret'.op = "log_cached" =>
          /\ _cache' = _cache
          /\ log' = log \o Replay(_cache, EffLevel(ret'.log_level))
    /\ ret'.op \in GetOps =>
          \/ _cache' = _cache
          \/ /\ Len(_cache') = Len(_cache) + 1
             /\ SubSeq(_cache', 1, Len(_cache)) = _cache
             /\ CachedAt(_cache, _cache'[Len(_cache')].path) = {}

\* C18: log_cached emits one line per cache entry, in the order in which the
\* entries were first resolved (an entry is only ever added at the end of the
\* cache, for a path not yet in it), at the level passed to log_cached or
\* else the constructor's, nothing when that level is NOTSET, and leaves the
\* cache as it is.
C18_LogCached ==
    /\ [](\A i, j \in 1..Len(_cache) : _cache[i].path = _cache[j].path => i = j)
    /\ [][C18_Step]_vars

\* C18 witness: two paths were resolved without logging; log_cached(DEBUG)
\* logged both, in the order of their resolution.
C18_Witness ==
    /\ ret.op = "log_cached" /\ ret.log_level = "DEBUG" /\ _log_level = NOTSET
    /\ Len(_cache) = 2 /\ Len(log) = 2
    /\ log[1].key = as_key(_cache[1].path) /\ log[2].key = as_key(_cache[2].path)
    /\ log[1].key # log[2].key

EntryOf(line) == {i \in 1..Len(_cache) : as_key(_cache[i].path) = line.key}

\* C19: every log line, from the first resolution or from a replay, is the
\* line of a cache entry; for an entry first resolved with log_value=False the
\* line carries the marker and nothing else of the value: it is built from
\* the level, the key and the source alone, so that runs differing only in
\* that value log the same.
C19_ValueRedaction ==
    \A k \in 1..Len(log) :
        /\ EntryOf(log[k]) # {}
        /\ \A i \in EntryOf(log[k]) :
              IF _cache[i].log_value
              THEN log[k] = LineOf(log[k].level, _cache[i].path, _cache[i].value,
                                   _cache[i].source)
              ELSE log[k] = LineOf(log[k].level, _cache[i].path, NotLogged,
                                   _cache[i].source)

\* C19 witness: ('a','b') was resolved with log_value=False after its value
\* had been changed to 99; its two lines, one from get and one from
\* log_cached, carry the marker.
C19_Witness ==
    \E i \in 1..Len(_cache) :
        /\ ~_cache[i].log_value /\ _cache[i].value = "99"
        /\ \E k, l \in 1..Len(log) :
              /\ k < l
              /\ log[k].key = as_key(_cache[i].path) /\ log[k].value = NotLogged
              /\ log[l].key = as_key(_cache[i].path) /\ log[l].value = NotLogged

-----------------------------------------------------------------------------
(* Properties of attribute access (specification SpecAttr) *)

\* What get('NAME') with the configured sources and no default gives, stated
\* on the call record r and the state after the call: the path is NAME split
\* on '__'; None means no cache entry and no configured source answering; a
\* value is the one the cache holds for the path, which is the first one ever
\* returned for it, and on a fresh resolution the first configured answer.
LikeGet(r) ==
    /\ r.exc = NoExc
    /\ r.sources = <<>> /\ r.default = None
    /\ IsSplitOf(r.path, r.key.v[1])
    /\ r.value = None =>
          (CachedAt(_cache, r.path) = {} /\ Answering(_sources, r.path) = {})
    /\ r.value # None =>
          /\ \E i \in CachedAt(_cache, r.path) :
                _cache[i].value = r.value /\ _cache[i].source = r.source
          /\ \E e \in FirstOf(first, r.path) : e.value = r.value /\ e.source = r.source
    /\ (r.value # None /\ ~r.hit) => FirstAnswer(_sources, r.path, r.value, r.source)

\* C20 as claimed: for any name, config.NAME is config.get('NAME').
C20_AttributeSugarAnyName ==
    ret.op \in {"getattr", "attr"} => LikeGet(ret)

\* C20 as amended: for any name the Config object has no attribute of its
\* own for, config.NAME behaves as config.get('NAME') with the configured
\* sources and no default: the name is split on '__', an unresolvable name
\* gives None, and the call reads and fills the cache entry get uses.
C20_AttributeSugar ==
    /\ ret.op \in {"getattr", "get"} => LikeGet(ret)
    /\ ret.op = "getattr" => ret.key.v[1] \notin ConfigAttrs
    /\ ret.op = "attr" => ret.key.v[1] \in ConfigAttrs

\* C20 witness: config.a__b was answered from the cache entry a get filled,
\* after the payload had changed.
C20_Witness ==
    /\ ret.op = "getattr" /\ ret.key = StrKey(sA__B) /\ ret.hit
    /\ ret.path = <<sA, sB>> /\ ret.value = "27"
    /\ Answer(S1, <<sA, sB>>) = "99"

-----------------------------------------------------------------------------
(* Properties of stoppable (specification SpecStop) *)

\* C21: stoppable signal budget.  With stoppable(count=n), each of the
\* first n handled signals sets the stop flag and returns without exiting,
\* and the (n+1)-th handled signal calls sys.exit(1); with the default
\* count the process is still alive after four signals and exits on the
\* fifth.  No signal is handled after that exit, and nothing but the
\* handler exits with status 1.
C21_SignalBudget ==
    /\ sig.op = "on_signal" /\ sig.handled <= sig.count =>
          _stop /\ sig.alive /\ sig.exc = NoExc
    /\ sig.op = "on_signal" /\ sig.handled > sig.count =>
          /\ sig.handled = sig.count + 1
          /\ ~sig.alive /\ sig.exc = "SystemExit" /\ sig.status = "1"
    /\ sig.status = "1" => sig.op = "on_signal" /\ sig.handled = sig.count + 1
    /\ sig.count = DefaultCount /\ sig.op = "on_signal" =>
          (sig.handled <= 4 => sig.alive) /\ (sig.handled = 5 => ~sig.alive)

C21_Witness ==
    /\ sig.count = DefaultCount
    /\ sig.op = "on_signal"
    /\ sig.handled = DefaultCount + 1
    /\ ~sig.alive /\ sig.status = "1"

StopFlagChecked ==
    sig.op = "check_stop" =>
        IF ~sig.throw
        THEN sig.exc = NoExc /\ sig.result = (IF _stop THEN False ELSE True)
        ELSE /\ (sig.exc = "SystemExit") <=> _stop
             /\ sig.exc = NoExc => sig.result = None /\ sig.alive

StopFlagStep ==
    /\ _stop => _stop'
    /\ ~_stop /\ _stop' => sig'.op \in {"on_signal", "stop"}
    /\ sig.handled = 0 /\ sig'.handled = 1 => _stop' \/ ~sig'.alive
    /\ sig'.op = "stop" /\ sig'.alive => _stop'

-----------------------------------------------------------------------------
(* Properties of pid_file (specification SpecPid) *)

Users == DOMAIN pf

DefaultCallbacks(self) ==
    /\ self.max_age_callback = None
    /\ self.existing_callback = None
    /\ self.dead_callback = None

\* __enter__ of p created the file in this step
Creates(p) == pf[p].pc = "open_x" /\ pf'[p].pc = "body"

NormalRun(p) ==
    /\ pf[p].pc = "body" /\ pf[p].fs0 = Absent =>
          /\ pf[p].created /\ fs = Holds(p)
          /\ pf[p].depth = 1 /\ pf[p].events = <<>>
    /\ pf[p].pc = "exited" /\ pf[p].fs0 = Absent
          /\ pf[p].exc_type \in {None, "SystemExit"} =>
          pf[p].removed /\ fs = Absent

\* C23: pid_file normal run.  When no pid file exists, __enter__ creates
\* the file exclusively, writes the current process id into it and sets
\* created; the matching __exit__ removes the file: during the with-body
\* the file exists and holds the owner's pid, and after a run that ends
\* normally or by SystemExit the file does not exist.
C23_NormalRun ==
    /\ [](\A p \in Users : NormalRun(p))
    /\ [][\A p \in Users : Creates(p) =>
              fs = Absent /\ fs' = Holds(p) /\ pf'[p].created]_vars

C23_Witness ==
    \E p \in Users :
        /\ pf[p].pc = "exited" /\ pf[p].fs0 = Absent
        /\ pf[p].exc_type = "SystemExit"
        /\ pf[p].removed /\ fs = Absent

\* the recorded pid is that of a running process whose age does not exceed
\* max_age, and p is about to look it up
LiveOwner(p) ==
    /\ pf[p].pc = "probe"
    /\ procs[pf[p].pid].alive
    /\ pf[p].max_age = NoneAge \/ procs[pf[p].pid].age <= pf[p].max_age

\* C24: pid_file with a live owner.  When the pid file exists and holds
\* the pid of a running process (and max_age is None or not exceeded),
\* __enter__ with default callbacks calls on_existing and raises
\* SystemExit, does not set created, and leaves the existing file and its
\* content as they were when __enter__ was called; the with-body is not
\* entered, so no __exit__ follows.
C24_LiveOwner ==
    [][\A p \in Users :
          LiveOwner(p) /\ DefaultCallbacks(pf[p]) /\ pf'[p] # pf[p] =>
              /\ pf'[p].pc = "raised" /\ pf'[p].exc = "SystemExit"
              /\ pf'[p].events = pf[p].events \o
                    <<[name |-> "on_existing", pid |-> pf[p].pid,
                       exc |-> "SystemExit", ret |-> FALSE]>>
              /\ pf'[p].created = pf[p].created /\ ~pf'[p].created
              /\ fs' = fs /\ fs = pf[p].fs0 /\ fs = Holds(pf[p].pid)]_vars

C24_Witness ==
    \E p \in Users :
        /\ pf[p].pc = "raised" /\ pf[p].exc = "SystemExit"
        /\ DefaultCallbacks(pf[p])
        /\ pf[p].max_age = 1
        /\ Len(pf[p].events) = 1 /\ pf[p].events[1].name = "on_existing"
        /\ procs[2].alive /\ procs[2].age = 1
        /\ fs = Holds(2) /\ ~pf[p].created

\* the with-body of p ends in this step and __exit__ runs
Leaves(p) == pf[p].pc = "body" /\ pf'[p].pc = "exited"

\* C25: pid_file exception handling as documented.  If the with-body
\* raises SystemExit the pid file is removed on exit, whereas for any other
\* exception the exception is propagated and the pid file is left in place.
C25_ExceptionHandling ==
    [][\A p \in Users :
          Leaves(p) /\ pf[p].created /\ fs = Holds(p) =>
              /\ pf'[p].exc_type = "SystemExit" => fs' = Absent
              /\ pf'[p].exc_type = "Exception" =>
                    pf'[p].exc = "Exception" /\ fs' = fs /\ ~pf'[p].removed]_vars

LastEvent(self) == self.events[Len(self.events)]

\* C26: pid_file overwrite as documented.  If the pid file already exists
\* and the triggered lifecycle event (dead, existing or max_age) completes
\* without raising, __enter__ then creates the pid file, overwriting the
\* existing one with the current process id.
C26_Overwrite ==
    \A p \in Users :
        /\ pf[p].pc \in {"body", "raised"}
        /\ pf[p].events # <<>>
        /\ LastEvent(pf[p]).exc = NoExc
        => pf[p].pc = "body" /\ pf[p].created /\ fs = Holds(p)

\* the event the class documents for the recorded pid
Classified(self, table, pid) ==
    IF ~table[pid].alive THEN "on_dead"
    ELSE IF self.max_age # NoneAge /\ table[pid].age > self.max_age THEN "on_max_age"
    ELSE "on_existing"

\* p looks the recorded process up and calls the event in this step
Probes(p) == pf[p].pc = "probe" /\ pf'[p] # pf[p]

\* what a creation attempt that found the file does, for the user p
OneEvent(p) ==
    /\ Len(pf'[p].events) = Len(pf[p].events) + 1
    /\ LastEvent(pf'[p]).name = Classified(pf[p], procs, pf[p].pid)
    /\ LastEvent(pf'[p]).pid = pf[p].pid
    /\ LastEvent(pf'[p]).exc = NoExc /\ LastEvent(pf'[p]).ret =>
          \/ pf'[p].pc = "open_x" /\ pf'[p].depth = pf[p].depth + 1
          \/ pf[p].depth = RecursionLimit /\ pf'[p].exc = "RecursionError"
    /\ LastEvent(pf'[p]).exc = NoExc /\ ~LastEvent(pf'[p]).ret =>
          /\ pf'[p].pc = "body"
          /\ pf'[p].created = pf[p].created /\ ~pf'[p].created
          /\ fs' = fs

\* C27: pid_file event classification.  When the pid file already exists,
\* each creation attempt fires exactly one event: on_dead if no process
\* with the recorded pid exists; on_max_age if the process is alive,
\* max_age is not None and the process age exceeds max_age; on_existing
\* otherwise.  A true return from the event retries creation; a false
\* return makes __enter__ return without a pid file (created stays false
\* and the file is not written).
C27_EventClassification ==
    [][\A p \in Users : Probes(p) => OneEvent(p)]_vars

\* the file p found at the call of __enter__ names a pid
FileNamesPid(p) == pf[p].fs0.state = "pid"

\* __enter__ of p has returned or raised
Left(p) == pf[p].pc \in {"body", "raised", "exited"}

\* p found the file of a process that no longer exists
Stale(p) ==
    IF p \in Users
    THEN /\ pf[p].pc = "probe" /\ pf[p].depth = 1
         /\ ~procs[pf[p].pid].alive
         /\ DefaultCallbacks(pf[p])
    ELSE FALSE

Recovered(p) ==
    /\ pf[p].pc = "body" /\ pf[p].created /\ fs = Holds(p)
    /\ pf[p].depth = 2
    /\ pf[p].events = <<[name |-> "on_dead", pid |-> pf[p].fs0.pid,
                         exc |-> NoExc, ret |-> TRUE]>>

HasRecovered(p) == IF p \in Users THEN Recovered(p) ELSE FALSE

StaleRecovery(p) ==
    /\ DefaultCallbacks(pf[p])
    /\ pf[p].events # <<>>
    /\ pf[p].events[1].name = "on_dead"
    => /\ pf[p].pc = "open_x" => fs = Absent /\ pf[p].depth = 2
       /\ pf[p].pc = "body" => Recovered(p)
       /\ pf[p].pc \in {"open_x", "body", "exited"}

\* C28: pid_file stale file recovery.  When the pid file names a process
\* that no longer exists, __enter__ with default callbacks removes the
\* stale file, retries, and returns having created a pid file that holds
\* the current process id (created is true), no other process touching
\* the file meanwhile.
C28_StaleRecovery ==
    /\ [](\A p \in Users : StaleRecovery(p))
    /\ \A p \in Pids : Stale(p) ~> HasRecovered(p)

C28_Witness ==
    \E p \in Users : Recovered(p) /\ DefaultCallbacks(pf[p]) /\ pf[p].max_age = 1

-----------------------------------------------------------------------------
(* Properties of unsynchronized callers (specification SpecRace) *)

\* the cache is a dict: one entry per path
OneEntryPerPath ==
    \A i, j \in 1..Len(_cache) : _cache[i].path = _cache[j].path => i = j

\* the entry of a path is what the latest insert for it wrote
LastWriterWins ==
    \A t \in Threads :
        thr[t].last => CacheGet(_cache, thr[t].wrote.path) = thr[t].wrote

\* a lookup that hits returns the entry written last
HitStep(t) ==
    thr[t].pc = "lookup" /\ thr'[t].pc = "done" =>
        \E u \in Threads :
            /\ thr[u].last /\ thr[u].wrote.path = thr[t].path
            /\ thr'[t].value = thr[u].wrote.value
            /\ thr'[t].source = thr[u].wrote.source

\* an insert puts the caller's own result in the cache, whatever is there
InsertStep(t) ==
    thr[t].pc = "insert" /\ thr'[t].pc = "done" =>
        /\ CacheGet(_cache', thr[t].path) =
              Entry(thr[t].path, thr[t].value, thr[t].source, TRUE)
        /\ Len(_cache') = IF CachedAt(_cache, thr[t].path) = {}
                          THEN Len(_cache) + 1 ELSE Len(_cache)

\* C29: unsynchronized concurrent get is racy as the spec describes.  Two
\* callers interleaving get_with_source for the same uncached path with
\* different effective source orders can both pass the cache check, resolve
\* from different sources and return different values for the same key (the
\* witness); the later insert overwrites the earlier one, the cache holds a
\* single entry for the path, and every subsequent lookup returns the
\* entry written last.
C29_RacyGet ==
    /\ [](OneEntryPerPath /\ LastWriterWins)
    /\ [][\A t \in Threads : HitStep(t) /\ InsertStep(t)]_vars

C29_Witness ==
    \E t, u \in Threads :
        /\ t # u
        /\ thr[t].wrote.path = thr[u].wrote.path
        /\ thr[t].wrote.value # None /\ thr[u].wrote.value # None
        /\ thr[t].wrote.value # thr[u].wrote.value
        /\ thr[t].wrote.source # thr[u].wrote.source
        /\ thr[u].last /\ ~thr[t].last
        /\ _cache = <<thr[u].wrote>>
        /\ thr[u].calls = 1 /\ thr[u].pc = "done" /\ ~thr[u].hit
        /\ thr[t].calls = 2 /\ thr[t].pc = "done" /\ thr[t].hit
        /\ thr[t].value = thr[u].wrote.value

\* each of p's callbacks returns true and changes nothing
AllTrue(self) ==
    /\ self.existing_callback = "true"
    /\ self.dead_callback = "true"
    /\ self.max_age_callback = "true"

\* a retry of p in this step: one more frame of __enter__
Retries(p) == pf'[p].depth = pf[p].depth + 1 /\ pf[p].depth >= 1

RetryOnlyAfterTrue(p) ==
    Retries(p) =>
        /\ Probes(p) /\ pf'[p].pc = "open_x"
        /\ LastEvent(pf'[p]).exc = NoExc /\ LastEvent(pf'[p]).ret

\* with default callbacks and a file that is absent or holds a pid:
\* at most two attempts, and __enter__ returns or raises SystemExit
DefaultsBounded(p) ==
    DefaultCallbacks(pf[p]) /\ pf[p].fs0 # Unparsable /\ pf[p].depth >= 1 =>
        /\ pf[p].depth <= 2
        /\ pf[p].pc = "raised" => pf[p].exc = "SystemExit"

\* p has called __enter__ with default callbacks on a file it can read
Entering(p) ==
    IF p \in Users
    THEN /\ pf[p].pc = "open_x" /\ pf[p].depth = 1
         /\ DefaultCallbacks(pf[p]) /\ fs # Unparsable
    ELSE FALSE

HasLeft(p) == IF p \in Users THEN Left(p) ELSE FALSE

\* p, whose callbacks all return true, is about to call an event
Looping(p) ==
    IF p \in Users THEN AllTrue(pf[p]) /\ pf[p].pc = "probe" ELSE FALSE

AllReturnedTrue(self) ==
    \A i \in 1..Len(self.events) : self.events[i].exc = NoExc /\ self.events[i].ret

\* __enter__ of p retried until the interpreter had no frame left
StackExhausted(p) ==
    /\ pf[p].pc = "raised" /\ pf[p].exc = "RecursionError"
    /\ pf[p].depth = RecursionLimit
    /\ Len(pf[p].events) = RecursionLimit
    /\ AllReturnedTrue(pf[p])
    /\ ~pf[p].created /\ fs = pf[p].fs0

HasExhausted(p) == IF p \in Users THEN StackExhausted(p) ELSE FALSE

-----------------------------------------------------------------------------
(* Properties of pid_file shared by two processes (specification SpecShared) *)

AllDefault == \A p \in Users : DefaultCallbacks(pf[p])

\* p is inside its with-body, created set
InsideCreated(p) == pf[p].pc = "body" /\ pf[p].created /\ procs[p].alive

\* C31: pid_file mutual exclusion under concurrency.  For one pid-file
\* path, at most one live process at a time is inside pid_file with
\* created == true, for every interleaving of concurrently starting
\* processes using default callbacks, including when a stale file left by
\* a dead process is present; no process removes or replaces a pid file
\* that another live process has just created.
C31_MutualExclusion ==
    /\ [](AllDefault =>
            \A p, q \in Users : InsideCreated(p) /\ InsideCreated(q) => p = q)
    /\ [][AllDefault =>
            \A p \in Users :
                InsideCreated(p) /\ fs = Holds(p) /\ fs' # fs => pf'[p].pc = "exited"]_vars

\* C32: pid_file removes only its own file.  Across any sequence of
\* __enter__/__exit__ calls on one pid_file instance, __exit__ removes the
\* pid file only if the immediately preceding __enter__ of that instance
\* created it; an entry that continued without a pid file (event returned
\* false) never deletes the file owned by another process.
C32_RemovesOnlyOwnFile ==
    [][\A p \in Users :
          Leaves(p) =>
              /\ fs' # fs \/ pf'[p].removed => pf[p].wrote
              /\ ~pf[p].wrote /\ fs.state = "pid" /\ fs.pid # p => fs' = fs]_vars

-----------------------------------------------------------------------------
(* Properties of handle_signals (specification SpecSig) *)

Range(seq) == {seq[k] : k \in 1..Len(seq)}

CmEntered == Len(active') = Len(active) + 1
CmExited == Len(active') = Len(active) - 1

\* C33: signal handler restoration.  handle_signals.__exit__ reinstalls, for
\* every signum in signums, the handler that was installed immediately
\* before the matching __enter__, so properly nested handle_signals /
\* stoppable / pstack contexts on the same signal leave the process's
\* handlers exactly as they were before the outermost __enter__, and signals
\* not in signums are never touched.
C33_Restoration ==
    /\ [][CmExited =>
            LET top == active[Len(active)]
            IN  /\ \A s \in Range(cms[top.cm].signums) : handlers'[s] = top.before[s]
                /\ active' = <<>> => handlers' = active[1].before]_vars
    /\ [][CmEntered \/ CmExited =>
            LET i == IF CmEntered THEN active'[Len(active')].cm ELSE active[Len(active)].cm
            IN  \A s \in Signals \ Range(cms[i].signums) : handlers'[s] = handlers[s]]_vars

====
